---------------------------- MODULE Spec2Model ----------------------------
(***************************************************************************)
(* A model of the Astra companion pipeline: the conversation manager       *)
(* (conversation_manager.py), the emotion memory (astra_memory.py), the    *)
(* memory retrieval tiers (dual_model_integrator.py, memory_extractor.py,  *)
(* intent_analyzer.py) and the patched send_message turn (astra_app.py,    *)
(* astra_chat.py).                                                         *)
(*                                                                         *)
(* Text is a sequence of one-character strings.  The Cyrillic literals of  *)
(* the source are written in a one-letter-per-letter Latin transcription   *)
(* ("vajno" for the marker of conversation_manager.py:275).  A field that  *)
(* holds None or a value is a list of no or of one element.                *)
(***************************************************************************)
EXTENDS Integers, Sequences, FiniteSets, TLC

VARIABLES
    \* ConversationManager (conversation_manager.py:31-38)
    full_conversation_history,   \* list of [role, content, timestamp]
    api_context_history,         \* list of [role, content]
    summary_history,             \* list of [timestamp, summary]
    latest_summary,              \* NoneVal or Some(snippet)
    embedding_model,             \* TRUE when the sentence transformer loaded
    message_embeddings,          \* list of "emb" / "None"
    \* observation of the conversation manager
    appended,                    \* every message handed to add_message, in order
    clock,                       \* datetime.now(): the number of messages so far
    last_call,                   \* the last operation, its arguments and result
    \* AstraMemory (astra_memory.py:40-60)
    emotion_memory,              \* list of emotion entries
    autonomous_memory,           \* the constructor's flag
    emotion_file,                \* emotion_memory.json as last saved
    emotion_calls,               \* calls made to the emotion memory so far
    \* AstraMCPMemory (astra_mcp_memory.py:108-134)
    mcp_texts,                   \* metadata: length in characters of every stored text
    mcp_index,                   \* for every vector of the index, the metadata position of its text
    mcp_backend,                 \* faiss and sentence-transformers were imported
    \* the patched send_message (astra_app.py:79-152)
    pc,                          \* where the turn stands
    turn,                        \* the locals of the turn and what it did
    turns,                       \* turns completed
    current_state,               \* memory.current_state
    current_state_file,          \* current_state.json
    history_file,                \* conversation_history.jsonl
    \* the tables of AstraMemory (astra_memory.py:51-56)
    trigger_phrases,             \* list of [trigger, sets]
    tone_memory,                 \* list of [label, triggered_by]
    subtone_memory,              \* list of [label, examples]
    flavor_memory                \* list of [label, examples]

convVars == << full_conversation_history, api_context_history, summary_history,
               latest_summary, embedding_model, message_embeddings,
               appended, clock >>

emotionVars == << emotion_memory, autonomous_memory, emotion_file,
                  emotion_calls >>

retrievalVars == << mcp_texts, mcp_index, mcp_backend >>

turnVars == << pc, turn, turns, current_state, current_state_file,
              history_file >>

tableVars == << trigger_phrases, tone_memory, subtone_memory, flavor_memory >>

vars == << convVars, last_call, emotionVars, retrievalVars, turnVars,
          tableVars >>

-----------------------------------------------------------------------------
(* Bounds of the model *)

\* number of add_message calls, and of summaries written, explored with freely
\* chosen arguments
MaxAppends == 2
\* number of add_message calls explored with the default settings
MaxDefaultAppends == 110
\* number of calls to the emotion memory
MaxEmotionCalls == 2
\* entries and tones the commands add before the automatic updates
MaxTaught == 1
\* length of the phrases given to _normalize_phrase
MaxPhraseLen == 5
\* number of texts in the vector store
MaxStored == 2
\* number of turns
MaxTurns == 2

-----------------------------------------------------------------------------
(* Python built-ins used by the source *)

Max(a, b) == IF a >= b THEN a ELSE b
Min(a, b) == IF a <= b THEN a ELSE b

\* s[i:] with Python's reading of a negative index (and of -0, which is 0)
PySliceFrom(s, i) ==
    LET n == Len(s)
        st == IF i < 0 THEN Max(n + i, 0) ELSE Min(i, n)
    IN SubSeq(s, st + 1, n)

\* s[:j]
PySliceTo(s, j) ==
    LET n == Len(s)
        en == IF j < 0 THEN Max(n + j, 0) ELSE Min(j, n)
    IN SubSeq(s, 1, en)

UpperChars == {"A", "B", "C", "D", "P", "V"}
LowerChars == {"a", "b", "c", "d", "e", "g", "h", "i", "j", "k", "l", "m", "n",
               "o", "p", "q", "r", "s", "t", "u", "v", "x", "y", "z"}
DigitChars == {"0", "1", "2"}
SpaceChars == {" "}

\* str.isalnum of one character
IsAlnum(c) == c \in UpperChars \cup LowerChars \cup DigitChars
\* the regular expression classes \w and \s
IsWordChar(c) == IsAlnum(c) \/ c = "_"
IsSpaceChar(c) == c \in SpaceChars

ToLowerChar(c) ==
    CASE c = "A" -> "a" [] c = "B" -> "b" [] c = "C" -> "c"
      [] c = "D" -> "d" [] c = "P" -> "p" [] c = "V" -> "v"
      [] OTHER -> c

\* str.lower
StrLower(s) == [i \in 1..Len(s) |-> ToLowerChar(s[i])]

RECURSIVE SplitFrom(_, _, _)
\* str.split(): the maximal runs of non-space characters of s[i..]
SplitFrom(s, i, cur) ==
    IF i > Len(s) THEN (IF cur = <<>> THEN <<>> ELSE <<cur>>)
    ELSE IF IsSpaceChar(s[i])
         THEN (IF cur = <<>> THEN <<>> ELSE <<cur>>) \o SplitFrom(s, i + 1, <<>>)
         ELSE SplitFrom(s, i + 1, Append(cur, s[i]))

StrSplit(s) == SplitFrom(s, 1, <<>>)

RECURSIVE StrJoin(_, _)
\* sep.join(parts)
StrJoin(sep, parts) ==
    IF parts = <<>> THEN <<>>
    ELSE IF Len(parts) = 1 THEN parts[1]
    ELSE parts[1] \o sep \o StrJoin(sep, Tail(parts))

\* needle in hay (substring test of two strings)
StrContains(hay, needle) ==
    \E i \in 0..(Len(hay) - Len(needle)) :
        SubSeq(hay, i + 1, i + Len(needle)) = needle

\* x in lst (list membership)
InList(x, lst) == \E i \in 1..Len(lst) : lst[i] = x


\* Optional values: None is the empty list, a value x is <<x>>
NoneVal == <<>>
Some(x) == <<x>>

-----------------------------------------------------------------------------
(* conversation_manager.py *)

\* history kept by summarize_history and add_message when called with no
\* argument (conversation_manager.py:177)
DefaultMaxRecent == 50
DefaultSummaryWords == 40
\* size of the window sent to the API (conversation_manager.py:105)
ApiWindow == 20
\* recent messages always selected (conversation_manager.py:241)
RecentWindow == 10
\* keyword and important-marker matches selected at most (lines 263, 279)
MatchCap == 5
\* results asked of semantic_search (conversation_manager.py:211)
SemanticTopK == 5
\* shortest keyword is longer than this (conversation_manager.py:328)
KeywordMinLen == 4

Ellipsis == <<".", ".", ".">>

\* "Сводка предыдущего диалога: " (conversation_manager.py:295)
SummaryPrefix == <<"s", "v", "o", "d", "k", "a", ":", " ">>

\* the markers "важно", "запомни", "не забудь" (conversation_manager.py:275-277)
ImportantMarkers ==
    { <<"v","a","j","n","o">>,
      <<"z","a","p","o","m","n","i">>,
      <<"n","e"," ","z","a","b","u","d","h">> }

\* conversation_manager.py:317-320
Stopwords ==
    { <<"e","t","o","t">>, <<"e","t","o">>, <<"e","t","a">>, <<"e","t","i">>,
      <<"t","o","g","o">>, <<"t","o","m","u">>, <<"m","e","n","q">>,
      <<"t","e","b","q">>, <<"s","e","b","q">>, <<"e","s","t","h">>,
      <<"b","y","t","h">>, <<"b","y","l">>, <<"b","y","l","a">>,
      <<"b","y","l","i">>, <<"b","u","d","u">>, <<"b","u","d","e","t">>,
      <<"k","o","t","o","r","y","j">>, <<"k","o","t","o","r","a","q">>,
      <<"k","o","t","o","r","y","e">>, <<"k","o","g","d","a">>,
      <<"v","s","e","g","o">>, <<"o","c","e","n","h">>, <<"t","a","k","x","e">>,
      <<"p","r","o","s","t","o">>, <<"t","a","k","o","j">>,
      <<"t","a","k","a","q">>, <<"t","a","k","i","e">>, <<"m","o","x","n","o">>,
      <<"n","u","x","n","o">>, <<"n","a","d","o">> }

\* the fields of a ConversationManager as one value
CM == [ full |-> full_conversation_history,
        api |-> api_context_history,
        summaries |-> summary_history,
        latest |-> latest_summary,
        model |-> embedding_model,
        embs |-> message_embeddings ]

ApiMessage(m) == [role |-> m.role, content |-> m.content]

\* a summarize_history that also runs at exactly max_recent messages
SummarizeSkipsBelow(len, max_recent) == len < max_recent

\* the condition under which summarize_history does nothing (line 180)
SummarizeSkips(len, max_recent) == len <= max_recent

\* a summarize_history that keeps the oldest messages
KeptOldest(history, max_recent) == PySliceTo(history, max_recent)

\* the messages summarize_history keeps in memory (line 203)
KeptMessages(history, max_recent) == PySliceFrom(history, -max_recent)

\* the messages summarize_history folds into the summary (line 183)
OldMessages(history, max_recent) == PySliceTo(history, -max_recent)

\* lines 184-188
Snippet(old_messages, summary_words) ==
    LET text == StrJoin(<<" ">>, [i \in 1..Len(old_messages) |-> old_messages[i].content])
        words == StrSplit(text)
        head == StrJoin(<<" ">>, PySliceTo(words, summary_words))
    IN IF Len(words) > summary_words THEN head \o Ellipsis ELSE head

\* ConversationManager.summarize_history
summarize_history(cm, max_recent, summary_words, now) ==
    IF SummarizeSkips(Len(cm.full), max_recent) THEN cm
    ELSE LET snippet == Snippet(OldMessages(cm.full, max_recent), summary_words)
             record == [timestamp |-> now, summary |-> snippet]
         IN [ cm EXCEPT
                !.summaries = Append(@, record),
                !.latest = Some(snippet),
                !.full = KeptMessages(@, max_recent),
                !.api = IF Len(@) > max_recent THEN PySliceFrom(@, -max_recent) ELSE @,
                !.embs = IF @ # <<>> THEN PySliceFrom(@, -max_recent) ELSE @ ]

\* the history after the new message is added (line 88)
AppendMessage(history, message) == Append(history, message)

\* an API window that is never cut
UncutApiWindow(api) == api

\* the API window after the new message is added (lines 104-106)
CutApiWindow(api) ==
    IF Len(api) > ApiWindow THEN PySliceFrom(api, -ApiWindow) ELSE api

\* ConversationManager.add_message; enc is what encode() gave: "emb", or
\* "None" when it raised
add_message(cm, role, content, now, enc) ==
    LET message == [role |-> role, content |-> content, timestamp |-> now]
        api1 == Append(cm.api, [role |-> role, content |-> content])
        cm1 == [ cm EXCEPT
                   !.full = AppendMessage(@, message),
                   !.embs = Append(@, IF cm.model THEN enc ELSE "None"),
                   !.api = CutApiWindow(api1) ]
    IN summarize_history(cm1, DefaultMaxRecent, DefaultSummaryWords, now)

\* ConversationManager.extract_keywords
extract_keywords(text) ==
    LET words == StrSplit(StrLower(text))
        cleaned == [i \in 1..Len(words) |-> SelectSeq(words[i], IsAlnum)]
        Keep(w) == Len(w) > KeywordMinLen /\ w \notin Stopwords
    IN SelectSeq(cleaned, Keep)

\* the outcomes of the embedding library inside semantic_search: it raises, or
\* ranks the stored embeddings and returns the top_k best positions
SemanticOutcomes(cm) ==
    IF ~cm.model \/ cm.embs = <<>> THEN { [ok |-> FALSE, order |-> <<>>] }
    ELSE LET n == Len(cm.embs)
             k == Min(SemanticTopK, n)
         IN { [ok |-> FALSE, order |-> <<>>] } \cup
            { [ok |-> TRUE, order |-> o] :
                o \in { f \in [1..k -> 1..n] :
                          \A i, j \in 1..k : i # j => f[i] # f[j] } }

\* ConversationManager.semantic_search; sem is the library's outcome
semantic_search(cm, sem) ==
    IF ~cm.model \/ cm.embs = <<>> THEN <<>>
    ELSE IF ~sem.ok \/ InList("None", cm.embs) THEN <<>>
    ELSE IF \E i \in 1..Len(sem.order) : sem.order[i] > Len(cm.full) THEN <<>>
    ELSE [i \in 1..Len(sem.order) |-> ApiMessage(cm.full[sem.order[i]])]

\* a selection of recent messages that needs a full window
RecentMessagesFullWindow(history) ==
    LET src == IF Len(history) >= RecentWindow
               THEN PySliceFrom(history, -RecentWindow) ELSE <<>>
    IN [i \in 1..Len(src) |-> ApiMessage(src[i])]

\* the recent messages get_relevant_context always selects (lines 240-245)
RecentMessages(history) ==
    LET src == IF Len(history) >= RecentWindow
               THEN PySliceFrom(history, -RecentWindow) ELSE history
    IN [i \in 1..Len(src) |-> ApiMessage(src[i])]

RECURSIVE ScanMatches(_, _, _, _, _)
\* the two scans of lines 254-280: the messages of history[i..] that are not
\* in skip and that hit (hits[i]), at most MatchCap of them
ScanMatches(history, i, skip, hits, acc) ==
    IF i > Len(history) \/ Len(acc) >= MatchCap THEN acc
    ELSE LET m == ApiMessage(history[i])
         IN IF InList(m, skip) \/ ~hits[i]
            THEN ScanMatches(history, i + 1, skip, hits, acc)
            ELSE ScanMatches(history, i + 1, skip, hits, Append(acc, m))

\* a merge that keeps every message it is given
KeepAllMessages(msgs, acc) == acc \o msgs

RECURSIVE DedupMessages(_, _)
\* lines 283-289: the first occurrence of every (role, content)
DedupMessages(msgs, acc) ==
    IF msgs = <<>> THEN acc
    ELSE IF InList(Head(msgs), acc) THEN DedupMessages(Tail(msgs), acc)
    ELSE DedupMessages(Tail(msgs), Append(acc, Head(msgs)))

\* ConversationManager.get_relevant_context; sem is the outcome of the
\* embedding library
get_relevant_context(cm, user_message, sem) ==
    LET recent_messages == RecentMessages(cm.full)
        semantic_matches == semantic_search(cm, sem)
        keywords == extract_keywords(user_message)
        KeywordHit(m) == \E k \in 1..Len(keywords) :
                            StrContains(StrLower(m.content), StrLower(keywords[k]))
        keyword_matches ==
            ScanMatches(cm.full, 1, recent_messages,
                        [i \in 1..Len(cm.full) |-> KeywordHit(cm.full[i])], <<>>)
        ImportantHit(m) == \E mk \in ImportantMarkers :
                              StrContains(StrLower(m.content), mk)
        essential_facts ==
            ScanMatches(cm.full, 1, recent_messages \o keyword_matches,
                        [i \in 1..Len(cm.full) |-> ImportantHit(cm.full[i])], <<>>)
        merged == DedupMessages(recent_messages \o semantic_matches
                                  \o keyword_matches \o essential_facts, <<>>)
        relevant_messages ==
            IF cm.latest # NoneVal /\ cm.latest[1] # <<>>
            THEN << [role |-> "system", content |-> SummaryPrefix \o cm.latest[1]] >>
                     \o merged
            ELSE merged
    IN IF relevant_messages = <<>> THEN recent_messages ELSE relevant_messages

-----------------------------------------------------------------------------
(* astra_memory.py: the emotion memory *)

\* A Python argument that is None, a string or a list of strings
PyNone == [kind |-> "none", val |-> <<>>]
PyStr(x) == [kind |-> "str", val |-> <<x>>]
PyList(l) == [kind |-> "list", val |-> l]

\* x if isinstance(x, list) else [x]
AsList(x) == IF x.kind = "list" THEN x.val ELSE <<x.val[1]>>

\* bool(x)
Truthy(x) ==
    CASE x.kind = "none" -> FALSE
      [] x.kind = "str" -> x.val[1] # ""
      [] OTHER -> x.val # <<>>

\* set(lst)
ToSet(lst) == { lst[i] : i \in 1..Len(lst) }

\* dict.get(key, default) of a key that may be missing
DictGet(field, default) == IF field = NoneVal THEN default ELSE field[1]

\* astra_memory.py:34
MAX_PHRASE_LENGTH == 200

\* a normalization that collapses the spaces before it drops the
\* punctuation
_normalize_spaces_first(phrase) ==
    LET KeepChar(c) == IsWordChar(c) \/ IsSpaceChar(c)
    IN SelectSeq(StrJoin(<<" ">>, StrSplit(StrLower(phrase))), KeepChar)

\* AstraMemory._normalize_phrase: lower case, drop what is neither a word
\* character nor a space, collapse the runs of spaces
_normalize_phrase(phrase) ==
    LET KeepChar(c) == IsWordChar(c) \/ IsSpaceChar(c)
    IN StrJoin(<<" ">>, StrSplit(SelectSeq(StrLower(phrase), KeepChar)))

\* difflib.SequenceMatcher.find_longest_match over whole strings without
\* junk (strings shorter than 200 characters): the longest common block,
\* the one that starts earliest in a, then earliest in b
LongestMatch(a, b) ==
    LET Common(k) == \E i \in 1..(Len(a) - k + 1), j \in 1..(Len(b) - k + 1) :
                        SubSeq(a, i, i + k - 1) = SubSeq(b, j, j + k - 1)
        sizes == { k \in 1..Min(Len(a), Len(b)) : Common(k) }
    IN IF sizes = {} THEN [i |-> 1, j |-> 1, size |-> 0]
       ELSE LET k == CHOOSE x \in sizes : \A y \in sizes : y <= x
                At(i, j) == SubSeq(a, i, i + k - 1) = SubSeq(b, j, j + k - 1)
                i0 == CHOOSE i \in 1..(Len(a) - k + 1) :
                        /\ \E j \in 1..(Len(b) - k + 1) : At(i, j)
                        /\ \A i2 \in 1..(i - 1) :
                             ~ \E j \in 1..(Len(b) - k + 1) : At(i2, j)
                j0 == CHOOSE j \in 1..(Len(b) - k + 1) :
                        At(i0, j) /\ \A j2 \in 1..(j - 1) : ~At(i0, j2)
            IN [i |-> i0, j |-> j0, size |-> k]

RECURSIVE MatchingChars(_, _)
\* the total size of SequenceMatcher.get_matching_blocks
MatchingChars(a, b) ==
    LET m == LongestMatch(a, b)
    IN IF m.size = 0 THEN 0
       ELSE m.size
            + MatchingChars(SubSeq(a, 1, m.i - 1), SubSeq(b, 1, m.j - 1))
            + MatchingChars(SubSeq(a, m.i + m.size, Len(a)),
                            SubSeq(b, m.j + m.size, Len(b)))

\* SequenceMatcher.ratio as a fraction: 2.0 * matches / length, 1.0 for two
\* empty strings
Ratio(a, b) ==
    IF Len(a) + Len(b) = 0 THEN [num |-> 1, den |-> 1]
    ELSE [num |-> 2 * MatchingChars(a, b), den |-> Len(a) + Len(b)]

\* AstraMemory.semantic_similarity
semantic_similarity(text1, text2) ==
    Ratio(_normalize_phrase(text1), _normalize_phrase(text2))

\* astra_memory.py:35 (0.75) and the default of semantic_match (0.8)
SIMILARITY_THRESHOLD == [num |-> 3, den |-> 4]
DefaultMatchThreshold == [num |-> 4, den |-> 5]

\* a comparison that leaves out the threshold itself
AboveThreshold(similarity, threshold) ==
    similarity.num * threshold.den > threshold.num * similarity.den

\* similarity >= threshold (astra_memory.py:486)
AtLeastThreshold(similarity, threshold) ==
    similarity.num * threshold.den >= threshold.num * similarity.den

RECURSIVE SortedBySimilarity(_, _)
\* matches.sort(key=similarity, reverse=True): the positions in idxs by
\* falling similarity, equal ones in their stored order
SortedBySimilarity(idxs, sims) ==
    IF idxs = {} THEN <<>>
    ELSE LET best == CHOOSE i \in idxs : \A j \in idxs :
                        \/ sims[i].num * sims[j].den > sims[j].num * sims[i].den
                        \/ /\ sims[i].num * sims[j].den = sims[j].num * sims[i].den
                           /\ i <= j
         IN <<best>> \o SortedBySimilarity(idxs \ {best}, sims)

\* AstraMemory.semantic_match: the positions of the matching entries
semantic_match(memory, input_text, threshold) ==
    LET input_norm == _normalize_phrase(input_text)
        sims == [i \in 1..Len(memory) |->
                    semantic_similarity(input_norm,
                                        _normalize_phrase(memory[i].trigger))]
        hits == { i \in 1..Len(memory) : AtLeastThreshold(sims[i], threshold) }
    IN SortedBySimilarity(hits, sims)

\* a lookup that finds nothing
_find_no_entry(memory, phrase) == 0

\* AstraMemory._find_emotion_entry: the position of the first entry with
\* this normalized trigger, 0 for None
_find_emotion_entry(memory, phrase) ==
    LET phrase_norm == _normalize_phrase(phrase)
        found == { i \in 1..Len(memory) :
                     _normalize_phrase(memory[i].trigger) = phrase_norm }
    IN IF found = {} THEN 0
       ELSE CHOOSE i \in found : \A j \in found : i <= j

\* an update that is written whenever an emotion is supplied
EmotionSupplied(entry, emotions) == TRUE

\* set(entry.get("emotion", [])) != set(emotions) (astra_memory.py:511)
EmotionChanged(entry, emotions) ==
    ToSet(DictGet(entry.emotion, <<>>)) # ToSet(emotions)

\* lines 533-539: the match holds every field that was supplied
SameFields(match, emotions, tone, subtones, flavors_list) ==
    /\ emotions = NoneVal
         \/ ToSet(DictGet(match.emotion, <<>>)) = ToSet(emotions[1])
    /\ tone = NoneVal \/ match.tone = tone
    /\ subtones = NoneVal
         \/ ToSet(DictGet(match.subtone, <<>>)) = ToSet(subtones[1])
    /\ flavors_list = NoneVal
         \/ ToSet(DictGet(match.flavor, <<>>)) = ToSet(flavors_list[1])

\* x if isinstance(x, list) else [x], or None for None (lines 496-506)
OptionalList(x) == IF x.kind = "none" THEN NoneVal ELSE Some(AsList(x))

\* AstraMemory.add_emotion_to_phrase: the memory after the call, what the
\* call returned, the saves of emotion_memory.json and the log lines written
add_emotion_to_phrase(memory, trigger, emotion, tone, subtone, flavor) ==
    LET norm_trigger == _normalize_phrase(trigger)
        emotions == OptionalList(emotion)
        subtones == OptionalList(subtone)
        flavors_list == OptionalList(flavor)
        at == _find_emotion_entry(memory, norm_trigger)
    IN IF at # 0
       THEN LET entry == memory[at]
                up_em == emotions # NoneVal /\ EmotionChanged(entry, emotions[1])
                up_tone == tone # NoneVal /\ entry.tone # tone
                up_st == /\ subtones # NoneVal
                         /\ ToSet(DictGet(entry.subtone, <<>>)) # ToSet(subtones[1])
                up_fl == /\ flavors_list # NoneVal
                         /\ ToSet(DictGet(entry.flavor, <<>>)) # ToSet(flavors_list[1])
                updated == up_em \/ up_tone \/ up_st \/ up_fl
                new_entry ==
                    [ trigger |-> entry.trigger,
                      emotion |-> IF up_em THEN emotions ELSE entry.emotion,
                      tone |-> IF up_tone THEN tone ELSE entry.tone,
                      subtone |-> IF up_st THEN subtones ELSE entry.subtone,
                      flavor |-> IF up_fl THEN flavors_list ELSE entry.flavor ]
            IN [ memory |-> [memory EXCEPT ![at] = new_entry],
                 result |-> updated,
                 saves |-> IF updated THEN 1 ELSE 0,
                 logs |-> 0 ]
       ELSE LET matches == semantic_match(memory, norm_trigger, SIMILARITY_THRESHOLD)
            IN IF \E k \in 1..Len(matches) :
                     SameFields(memory[matches[k]], emotions, tone, subtones,
                                flavors_list)
               THEN [memory |-> memory, result |-> FALSE, saves |-> 0, logs |-> 0]
               ELSE [ memory |-> Append(memory,
                                   [ trigger |-> norm_trigger,
                                     emotion |-> emotions,
                                     tone |-> tone,
                                     subtone |-> subtones,
                                     flavor |-> flavors_list ]),
                      result |-> TRUE, saves |-> 1, logs |-> 1 ]

\* an automatic update that does not look at the autonomous_memory flag
SkipsWithoutValue(autonomous, detected) == ~detected

\* `if not self.autonomous_memory or not detected_...: return`
\* (lines 877, 900, 921, 944); detected is the truth value of the argument
SkipsAutoUpdate(autonomous, detected) == ~autonomous \/ ~detected

\* AstraMemory.auto_update_emotion
auto_update_emotion(memory, autonomous, phrase, detected_emotion) ==
    IF SkipsAutoUpdate(autonomous, Truthy(detected_emotion))
    THEN [memory |-> memory, result |-> FALSE, saves |-> 0, logs |-> 0]
    ELSE IF Len(phrase) > MAX_PHRASE_LENGTH
    THEN [memory |-> memory, result |-> FALSE, saves |-> 0, logs |-> 0]
    ELSE add_emotion_to_phrase(memory, phrase, PyList(AsList(detected_emotion)),
                               NoneVal, PyNone, PyNone)

\* get_tone_by_label, get_subtone_by_label, get_flavor_by_label: the
\* position of the first entry with this label, 0 for None
LabelAt(table, label) ==
    LET found == { i \in 1..Len(table) : table[i].label = label }
    IN IF found = {} THEN 0
       ELSE CHOOSE i \in found : \A j \in found : i <= j

\* add_new_tone, add_new_subtone, add_new_flavor without a description:
\* the entry with this label gets the examples, or a new entry is appended
AddLabelled(table, label, examples) ==
    LET at == LabelAt(table, label)
    IN IF at # 0
       THEN [table EXCEPT ![at].examples = @ \o examples]
       ELSE Append(table, [label |-> label, examples |-> examples])

\* AstraMemory.add_new_tone(label, examples=examples); examples stands for
\* the entry's "triggered_by"
add_new_tone(table, label, examples) == AddLabelled(table, label, examples)

\* AstraMemory.add_new_subtone(label, examples=examples)
add_new_subtone(table, label, examples) == AddLabelled(table, label, examples)

\* AstraMemory.add_new_flavor(label, examples=examples)
add_new_flavor(table, label, examples) == AddLabelled(table, label, examples)

\* AstraMemory._update_tone_examples
_update_tone_examples(table, tone_label, phrase) ==
    LET at == LabelAt(table, tone_label)
    IN IF at # 0
       THEN IF InList(phrase, table[at].examples) THEN table
            ELSE [table EXCEPT ![at].examples = Append(@, phrase)]
       ELSE add_new_tone(table, tone_label, <<phrase>>)

\* AstraMemory._update_subtone_examples
_update_subtone_examples(table, label, phrase) ==
    LET at == LabelAt(table, label)
    IN IF at # 0
       THEN IF InList(phrase, table[at].examples) THEN table
            ELSE [table EXCEPT ![at].examples = Append(@, phrase)]
       ELSE add_new_subtone(table, label, <<phrase>>)

\* AstraMemory._update_flavor_examples
_update_flavor_examples(table, label, phrase) ==
    LET at == LabelAt(table, label)
    IN IF at # 0
       THEN IF InList(phrase, table[at].examples) THEN table
            ELSE [table EXCEPT ![at].examples = Append(@, phrase)]
       ELSE add_new_flavor(table, label, <<phrase>>)

RECURSIVE UpdateSubtones(_, _, _, _)
\* for st in subtones: self._update_subtone_examples(st, phrase)
UpdateSubtones(table, subtones, i, phrase) ==
    IF i > Len(subtones) THEN table
    ELSE UpdateSubtones(_update_subtone_examples(table, subtones[i], phrase),
                        subtones, i + 1, phrase)

RECURSIVE UpdateFlavors(_, _, _, _)
\* for fl in flavors: self._update_flavor_examples(fl, phrase)
UpdateFlavors(table, flavors, i, phrase) ==
    IF i > Len(flavors) THEN table
    ELSE UpdateFlavors(_update_flavor_examples(table, flavors[i], phrase),
                       flavors, i + 1, phrase)

\* the truth value of a detected tone: None and "" are false
TruthyTone(detected_tone) == detected_tone # NoneVal /\ detected_tone[1] # ""

\* what an automatic update leaves: the emotion memory as
\* add_emotion_to_phrase returned it (r), and the table of its labels
AutoUpdated(r, table) ==
    [memory |-> r.memory, saves |-> r.saves, table |-> table]

\* AstraMemory.auto_update_tone: the emotion memory, whether it was saved,
\* and the tone table after the call
auto_update_tone(memory, table, autonomous, phrase, detected_tone) ==
    IF SkipsAutoUpdate(autonomous, TruthyTone(detected_tone))
    THEN [memory |-> memory, saves |-> 0, table |-> table]
    ELSE AutoUpdated(
            add_emotion_to_phrase(memory, phrase, PyNone, detected_tone,
                                  PyNone, PyNone),
            _update_tone_examples(table, detected_tone[1], phrase))

\* AstraMemory.auto_update_subtone
auto_update_subtone(memory, table, autonomous, phrase, detected_subtone) ==
    IF SkipsAutoUpdate(autonomous, Truthy(detected_subtone))
    THEN [memory |-> memory, saves |-> 0, table |-> table]
    ELSE AutoUpdated(
            add_emotion_to_phrase(memory, phrase, PyNone, NoneVal,
                                  PyList(AsList(detected_subtone)), PyNone),
            UpdateSubtones(table, AsList(detected_subtone), 1, phrase))

\* AstraMemory.auto_update_flavor
auto_update_flavor(memory, table, autonomous, phrase, detected_flavor) ==
    IF SkipsAutoUpdate(autonomous, Truthy(detected_flavor))
    THEN [memory |-> memory, saves |-> 0, table |-> table]
    ELSE AutoUpdated(
            add_emotion_to_phrase(memory, phrase, PyNone, NoneVal, PyNone,
                                  PyList(AsList(detected_flavor))),
            UpdateFlavors(table, AsList(detected_flavor), 1, phrase))

-----------------------------------------------------------------------------
(* The conversation manager as a state machine *)

\* what the callers pass
Roles == {"user", "assistant"}
\* "" and "vajno: kluci"
Contents == { <<>>,
              <<"v","a","j","n","o",":"," ","k","l","u","c","i">> }
\* "hello" and "gde kluci?"
Queries == { <<"h","e","l","l","o">>,
             <<"g","d","e"," ","k","l","u","c","i","?">> }
\* max_recent as a caller passes it: none kept, one kept, two kept
MaxRecentArgs == {0, 1, 2}
SummaryWordsArgs == {2}

InitConversation ==
    /\ full_conversation_history = <<>>
    /\ api_context_history = <<>>
    /\ summary_history = <<>>
    /\ latest_summary = NoneVal
    /\ message_embeddings = <<>>
    /\ appended = <<>>
    /\ clock = 0
    /\ last_call = [op |-> "init"]

SetCM(cm) ==
    /\ full_conversation_history' = cm.full
    /\ api_context_history' = cm.api
    /\ summary_history' = cm.summaries
    /\ latest_summary' = cm.latest
    /\ message_embeddings' = cm.embs
    /\ embedding_model' = cm.model

\* cm.add_message(role, content)
AddMessageStep(role, content, enc) ==
    /\ SetCM(add_message(CM, role, content, clock + 1, enc))
    /\ appended' = Append(appended, [role |-> role, content |-> content,
                                     timestamp |-> clock + 1])
    /\ clock' = clock + 1
    /\ last_call' = [op |-> "add_message"]
    /\ UNCHANGED << emotionVars, retrievalVars, turnVars, tableVars >>

AddMessage ==
    /\ Len(appended) < MaxAppends
    /\ \E role \in Roles, content \in Contents,
          enc \in (IF embedding_model THEN {"emb", "None"} ELSE {"None"}) :
            AddMessageStep(role, content, enc)

\* cm.summarize_history(max_recent, summary_words)
SummarizeHistory ==
    /\ Len(summary_history) < MaxAppends
    /\ \E max_recent \in MaxRecentArgs, summary_words \in SummaryWordsArgs :
        /\ SetCM(summarize_history(CM, max_recent, summary_words, clock))
        /\ last_call' = [op |-> "summarize_history", max_recent |-> max_recent,
                         triggered |-> ~SummarizeSkips(Len(CM.full), max_recent)]
        /\ UNCHANGED << appended, clock, emotionVars, retrievalVars, turnVars, tableVars >>

\* cm.get_relevant_context(query)
GetRelevantContextStep(query, sem) ==
    /\ last_call' = [op |-> "get_relevant_context", query |-> query,
                     result |-> get_relevant_context(CM, query, sem)]
    /\ UNCHANGED << convVars, emotionVars, retrievalVars, turnVars, tableVars >>

GetRelevantContext ==
    \E query \in Queries, sem \in SemanticOutcomes(CM) :
        GetRelevantContextStep(query, sem)

\* a fresh AstraMemory: no emotion_memory.json (load_json_file gives [])
InitEmotionMemory ==
    /\ emotion_memory = <<>>
    /\ emotion_file = <<>>
    /\ emotion_calls = 0

\* an empty vector store with its backend loaded
InitRetrieval ==
    /\ mcp_texts = <<>>
    /\ mcp_index = <<>>
    /\ mcp_backend = TRUE

\* the state load_current_state writes when there is no current_state.json
\* (astra_memory.py:667-674)
DefaultState ==
    [ emotion |-> <<"nejnosth">>, tone |-> "nejnyj",
      subtone |-> <<"drojashij">>, flavor |-> <<"medovo-tekucij">> ]

\* the tables as load_all_memory reads them when no file exists
InitTables ==
    /\ trigger_phrases = <<>>
    /\ tone_memory = <<>>
    /\ subtone_memory = <<>>
    /\ flavor_memory = <<>>

\* no turn under way, no history file, the default current state
InitTurn ==
    /\ pc = "idle"
    /\ turn = [done |-> FALSE]
    /\ turns = 0
    /\ current_state = DefaultState
    /\ current_state_file = DefaultState
    /\ history_file = <<>>

InitConv ==
    /\ InitConversation
    /\ embedding_model \in BOOLEAN
    /\ InitEmotionMemory
    /\ autonomous_memory = TRUE
    /\ InitRetrieval
    /\ InitTurn
    /\ InitTables

NextConv == AddMessage \/ SummarizeHistory \/ GetRelevantContext

SpecConv == InitConv /\ [][NextConv]_vars

\* add_message as the turn calls it, with the default settings: the roles
\* alternate and the contents repeat "", "privet", "vajno: kluci"
DefaultContents ==
    << <<>>,
       <<"p","r","i","v","e","t">>,
       <<"v","a","j","n","o",":"," ","k","l","u","c","i">> >>

AddDefaultMessage ==
    /\ Len(appended) < MaxDefaultAppends
    /\ AddMessageStep(IF Len(appended) % 2 = 0 THEN "user" ELSE "assistant",
                      DefaultContents[(Len(appended) % 3) + 1], "emb")

\* three of the outcomes of the embedding library over a long history: it
\* raises, it ranks the newest messages first, it ranks the oldest first
SemanticOutcomeSample(cm) ==
    IF ~cm.model \/ cm.embs = <<>> THEN { [ok |-> FALSE, order |-> <<>>] }
    ELSE LET n == Len(cm.embs)
             k == Min(SemanticTopK, n)
         IN { [ok |-> FALSE, order |-> <<>>],
              [ok |-> TRUE, order |-> [i \in 1..k |-> n + 1 - i]],
              [ok |-> TRUE, order |-> [i \in 1..k |-> i]] }

GetRelevantContextOfLongHistory ==
    \E query \in Queries, sem \in SemanticOutcomeSample(CM) :
        GetRelevantContextStep(query, sem)

NextDefault == AddDefaultMessage \/ GetRelevantContextOfLongHistory

SpecDefault == InitConv /\ [][NextDefault]_vars

-----------------------------------------------------------------------------
(* Properties of the conversation manager *)

\* the history is appended[k+1..] for some k
IsSuffixOf(history, all) ==
    \E k \in 0..Len(all) : history = SubSeq(all, k + 1, Len(all))

\* C4: a call summarize_history(max_recent) that triggers (history longer
\* than max_recent) leaves at most max_recent messages in memory and adds
\* exactly one summary record; a call that does not trigger changes neither
\* the history nor the summaries.
C4_SummarizeLeavesAtMostMaxRecent ==
    [][ last_call'.op = "summarize_history" =>
          IF last_call'.triggered
          THEN /\ Len(full_conversation_history') <= last_call'.max_recent
               /\ Len(summary_history') = Len(summary_history) + 1
          ELSE UNCHANGED << full_conversation_history, summary_history >> ]_vars

\* C5: with the default settings the history never holds more than 50
\* messages, and after exactly 51 add_message calls there is exactly one
\* summary record.
C5_DefaultHistoryBounded ==
    /\ Len(full_conversation_history) <= DefaultMaxRecent
    /\ Len(appended) = DefaultMaxRecent + 1 => Len(summary_history) = 1

\* the 51st message has been added and the oldest one has been summarized
C5_Witness ==
    /\ Len(appended) = DefaultMaxRecent + 1
    /\ Len(full_conversation_history) = DefaultMaxRecent
    /\ Len(summary_history) = 1

\* C6: the history in memory is always a contiguous suffix, in append order,
\* of all the messages add_message was given.
C6_HistoryIsSuffixOfAppended ==
    IsSuffixOf(full_conversation_history, appended)

\* a summarization has dropped a proper prefix and kept the rest
C6_Witness ==
    /\ summary_history # <<>>
    /\ full_conversation_history # <<>>
    /\ Len(full_conversation_history) < Len(appended)

\* C7: get_relevant_context returns a non-empty list whenever the history is
\* not empty, whatever the query, the semantic backend and the summary.
C7_ContextNonEmpty ==
    (last_call.op = "get_relevant_context" /\ full_conversation_history # <<>>)
        => last_call.result # <<>>

\* a context was selected over a summarized history of more messages than
\* the recent window, with the backend loaded
C7_Witness ==
    /\ last_call.op = "get_relevant_context"
    /\ Len(full_conversation_history) > RecentWindow
    /\ latest_summary # NoneVal
    /\ embedding_model
    /\ last_call.result # <<>>

\* C17: whenever at least one summary record exists, the first element
\* get_relevant_context returns is a system message that carries the text
\* of the most recent summary record.
C17_SummaryLeadsContext ==
    (last_call.op = "get_relevant_context" /\ summary_history # <<>>)
        => /\ last_call.result # <<>>
           /\ last_call.result[1] =
                 [ role |-> "system",
                   content |-> SummaryPrefix
                      \o summary_history[Len(summary_history)].summary ]

-----------------------------------------------------------------------------
(* The emotion memory as a state machine *)

\* "Privet!", "privet", "privet mir", "poka"
Phrases ==
    { <<"P","r","i","v","e","t","!">>,
      <<"p","r","i","v","e","t">>,
      <<"p","r","i","v","e","t"," ","m","i","r">>,
      <<"p","o","k","a">> }
\* a phrase of MAX_PHRASE_LENGTH + 1 characters
LongPhrase == [i \in 1..(MAX_PHRASE_LENGTH + 1) |-> "a"]

\* emotion as a caller of add_emotion_to_phrase passes it
EmotionArgs ==
    { PyNone, PyStr("radost"), PyList(<<"grust", "radost">>) }
\* tone, subtone and flavor as passed together: none of them, all of them
FieldArgs ==
    { [tone |-> NoneVal, subtone |-> PyNone, flavor |-> PyNone],
      [tone |-> Some("nejnyj"), subtone |-> PyStr("drojashij"),
       flavor |-> PyList(<<"med">>)] }
\* what the analyzer hands to auto_update_emotion
AutoPhrases ==
    { <<"P","r","i","v","e","t","!">>,
      <<"p","r","i","v","e","t"," ","m","i","r">>,
      LongPhrase }
AutoEmotionArgs ==
    { PyNone, PyStr("radost"), PyList(<<"radost", "grust">>) }

\* the effect of a call on the memory object and on emotion_memory.json
EmotionCallStep(call, r) ==
    /\ emotion_memory' = r.memory
    /\ emotion_file' = IF r.saves > 0 THEN r.memory ELSE emotion_file
    /\ emotion_calls' = emotion_calls + 1
    /\ last_call' = [ op |-> call.op, phrase |-> call.phrase,
                      emotion |-> call.emotion, fields |-> call.fields,
                      size_before |-> Len(emotion_memory),
                      result |-> r.result, saves |-> r.saves ]
    /\ UNCHANGED << autonomous_memory, convVars, retrievalVars, turnVars, tableVars >>

\* memory.add_emotion_to_phrase(trigger, emotion, tone, subtone, flavor)
AddEmotionToPhrase ==
    /\ emotion_calls < MaxEmotionCalls
    /\ \E trigger \in Phrases, emotion \in EmotionArgs, fields \in FieldArgs :
         EmotionCallStep(
            [op |-> "add_emotion_to_phrase", phrase |-> trigger,
             emotion |-> emotion, fields |-> fields],
            add_emotion_to_phrase(emotion_memory, trigger, emotion,
                                  fields.tone, fields.subtone, fields.flavor))

\* memory.auto_update_emotion(phrase, detected_emotion)
AutoUpdateEmotion ==
    /\ emotion_calls < MaxEmotionCalls
    /\ \E phrase \in AutoPhrases, detected \in AutoEmotionArgs :
         EmotionCallStep(
            [op |-> "auto_update_emotion", phrase |-> phrase,
             emotion |-> detected,
             fields |-> [tone |-> NoneVal, subtone |-> PyNone, flavor |-> PyNone]],
            auto_update_emotion(emotion_memory, autonomous_memory, phrase,
                                detected))

InitEmotion ==
    /\ InitConversation
    /\ embedding_model = FALSE
    /\ InitEmotionMemory
    /\ autonomous_memory \in BOOLEAN
    /\ InitRetrieval
    /\ InitTurn
    /\ InitTables

NextEmotion == AddEmotionToPhrase \/ AutoUpdateEmotion

SpecEmotion == InitEmotion /\ [][NextEmotion]_vars

-----------------------------------------------------------------------------
(* Properties of the emotion memory *)

\* the entry agrees with every emotion field the call supplies
CallHasFieldsOf(entry, call) ==
    /\ call.emotion.kind = "none"
         \/ ToSet(DictGet(entry.emotion, <<>>)) = ToSet(AsList(call.emotion))
    /\ call.fields.tone = NoneVal \/ entry.tone = call.fields.tone
    /\ call.fields.subtone.kind = "none"
         \/ ToSet(DictGet(entry.subtone, <<>>)) = ToSet(AsList(call.fields.subtone))
    /\ call.fields.flavor.kind = "none"
         \/ ToSet(DictGet(entry.flavor, <<>>)) = ToSet(AsList(call.fields.flavor))

\* the trigger is the entry's up to normalization
SameTrigger(entry, phrase) ==
    _normalize_phrase(entry.trigger) = _normalize_phrase(phrase)

\* the trigger is similar to the entry's at 0.75 or more
SimilarTrigger(entry, phrase) ==
    LET r == semantic_similarity(phrase, entry.trigger)
    IN 4 * r.num >= 3 * r.den

\* C8: add_emotion_to_phrase with a trigger equal up to normalization to an
\* existing entry's, or similar to it at 0.75 or more, and with the same
\* emotion fields as that entry, does not increase the number of entries.
C8_DedupSameFields ==
    [][ ( /\ last_call'.op = "add_emotion_to_phrase"
          /\ emotion_calls' = emotion_calls + 1
          /\ \E i \in 1..Len(emotion_memory) :
               /\ SameTrigger(emotion_memory[i], last_call'.phrase)
                    \/ SimilarTrigger(emotion_memory[i], last_call'.phrase)
               /\ CallHasFieldsOf(emotion_memory[i], last_call') )
        => Len(emotion_memory') <= Len(emotion_memory) ]_vars

\* "privet mir" was added with the emotions of the entry "privet", to which
\* it is similar at exactly 0.75, and nothing was stored
C8_Witness ==
    /\ last_call.op = "add_emotion_to_phrase"
    /\ last_call.phrase = <<"p","r","i","v","e","t"," ","m","i","r">>
    /\ last_call.emotion.kind # "none"
    /\ ~last_call.result
    /\ Len(emotion_memory) = 1
    /\ emotion_memory[1].trigger = <<"p","r","i","v","e","t">>
    /\ CallHasFieldsOf(emotion_memory[1], last_call)

\* the call supplies an emotion other than the one the entry holds
SuppliesOtherEmotion(entry, call) ==
    /\ call.emotion.kind # "none"
    /\ SameTrigger(entry, call.phrase)
    /\ ToSet(DictGet(entry.emotion, <<>>)) # ToSet(AsList(call.emotion))

\* the call reaches add_emotion_to_phrase
CallIsAccepted(call) ==
    \/ call.op = "add_emotion_to_phrase"
    \/ /\ call.op = "auto_update_emotion"
       /\ autonomous_memory
       /\ Truthy(call.emotion)
       /\ Len(call.phrase) <= MAX_PHRASE_LENGTH

\* C9: no two entries of the emotion memory have the same normalized
\* trigger; a call that re-adds an existing trigger with a different emotion
\* leaves that entry, in its place, with exactly the supplied emotions; no
\* call removes or moves an entry.
C9_OneEntryPerTrigger ==
    /\ [](\A i, j \in 1..Len(emotion_memory) :
            SameTrigger(emotion_memory[i], emotion_memory[j].trigger) => i = j)
    /\ [][ /\ Len(emotion_memory') >= Len(emotion_memory)
           /\ \A i \in 1..Len(emotion_memory) :
                /\ emotion_memory'[i].trigger = emotion_memory[i].trigger
                /\ ( /\ emotion_calls' = emotion_calls + 1
                     /\ CallIsAccepted(last_call')
                     /\ SuppliesOtherEmotion(emotion_memory[i], last_call') )
                   => /\ emotion_memory'[i].emotion
                           = Some(AsList(last_call'.emotion))
                      /\ Len(emotion_memory') = Len(emotion_memory) ]_vars

\* "Privet!" was stored with one emotion and re-added as "privet" with two
C9_Witness ==
    /\ last_call.op \in {"add_emotion_to_phrase", "auto_update_emotion"}
    /\ last_call.phrase = <<"p","r","i","v","e","t">>
    /\ last_call.result
    /\ last_call.size_before = 1
    /\ Len(emotion_memory) = 1
    /\ emotion_memory[1].emotion = Some(<<"grust", "radost">>)
    /\ emotion_file = emotion_memory

-----------------------------------------------------------------------------
(* Memory retrieval: dual_model_integrator.py, memory_extractor.py,        *)
(* intent_analyzer.py, astra_mcp_memory.py.  A stored text is its length   *)
(* in characters, a diary fragment its length in characters and in words,  *)
(* a score is in hundredths.                                               *)

\* dual_model_integrator.py:240-241
MaxTokensPerMemory == 500
MaxTotalTokens == 3000
\* min_score=0.4 and the filter score > 0.45 (dual_model_integrator.py:219-223)
VectorMinScore == 40
VectorKeepAbove == 45
\* the defaults of AstraMCPMemory.semantic_search (astra_mcp_memory.py:146)
DefaultMinScore == 60
\* memory_extractor.py:203, 233, 346, 192
MemoryTokenLimit == 3000
McpTopK == 5
RelevanceTokenLimit == 800
PrefilterMinimum == 5
\* intent_analyzer.py:218, 222, 410
RelevanceTopN == 3
DefaultRelevanceLimit == 1500
CompactWords == 50

RECURSIVE SumSeq(_)
SumSeq(q) == IF q = <<>> THEN 0 ELSE Head(q) + SumSeq(Tail(q))

\* _count_tokens without tiktoken, and len(memory_text) // 4
_count_tokens(chars) == chars \div 4

\* top_k of dual_model_integrator.py:211
VectorTopK(intent) == IF intent = "memory_recall" THEN 3 ELSE 2

\* what the index gives AstraMCPMemory.semantic_search: it is unusable
\* (no hit), the embedding raises, or top_k stored positions come with scores
SearchOutcomes(n, top_k) ==
    LET k == Min(top_k, n)
    IN { [ok |-> FALSE, hits |-> <<>>], [ok |-> TRUE, hits |-> <<>>] } \cup
       { [ok |-> TRUE, hits |-> h] :
           h \in { f \in [1..k -> [at : 1..n, score : {42, 70}]] :
                     \A i, j \in 1..k : i # j => f[i].at # f[j].at } }

\* AstraMCPMemory.semantic_search: the hits that reach min_score
mcp_semantic_search(hits, min_score) ==
    LET Reaches(h) == ~(h.score < min_score)
    IN SelectSeq(hits, Reaches)

\* memory_text[:2000] + "..." (dual_model_integrator.py:249-250)
TruncatedLength(chars) ==
    IF chars > MaxTokensPerMemory * 4 THEN MaxTokensPerMemory * 4 + 3 ELSE chars

RECURSIVE AcceptUntilOver(_, _, _, _)
\* a loop that accepts while the total stays in the limit and breaks at the
\* first item that does not fit (dual_model_integrator.py:243-275)
AcceptUntilOver(tokens, i, used, limit) ==
    IF i > Len(tokens) \/ used + tokens[i] > limit THEN <<>>
    ELSE <<tokens[i]>> \o AcceptUntilOver(tokens, i + 1, used + tokens[i], limit)

RECURSIVE CollectFrom(_, _, _, _, _)
\* memory_extractor.py:298-304: the fragments of one diary
CollectFrom(fragments, i, used, limit, acc) ==
    IF i > Len(fragments) \/ used + _count_tokens(fragments[i].chars) > limit
    THEN [acc |-> acc, used |-> used]
    ELSE CollectFrom(fragments, i + 1, used + _count_tokens(fragments[i].chars),
                     limit, Append(acc, fragments[i]))

RECURSIVE CollectDiaries(_, _, _, _, _)
\* memory_extractor.py:275-308: the fragments of the diaries, in order
CollectDiaries(diaries, d, used, limit, acc) ==
    IF d > Len(diaries) \/ ~(used < limit) THEN acc
    ELSE LET r == CollectFrom(diaries[d], 1, used, limit, acc)
         IN IF r.used >= limit THEN r.acc
            ELSE CollectDiaries(diaries, d + 1, r.used, limit, r.acc)

\* MemoryExtractor.prefilter_fragments; matching holds the positions of the
\* fragments that contain a word of the query
prefilter_fragments(fragments, matching) ==
    LET filtered == { i \in 1..Len(fragments) : i \in matching }
    IN IF fragments = <<>> THEN <<>>
       ELSE IF Cardinality(filtered) < PrefilterMinimum THEN fragments
       ELSE [k \in 1..Cardinality(filtered) |->
               fragments[CHOOSE i \in filtered :
                            Cardinality({j \in filtered : j < i}) = k - 1]]

RECURSIVE SelectScored(_, _, _, _, _, _, _)
\* intent_analyzer.py:398-425: the word counts of the fragments selected
SelectScored(items, i, text_fragments, top_n, strategy, limit, selected) ==
    IF i > Len(items) \/ Len(selected) >= top_n THEN selected
    ELSE LET index == items[i].index
         IN IF ~(0 <= index /\ index < Len(text_fragments))
            THEN SelectScored(items, i + 1, text_fragments, top_n, strategy,
                              limit, selected)
            ELSE LET words == text_fragments[index + 1].words
                     tokens == IF strategy = "compact_relevance"
                               THEN Min(words, CompactWords) ELSE words
                 IN IF SumSeq(selected) + tokens > limit
                    THEN SelectScored(items, i + 1, text_fragments, top_n,
                                      strategy, limit, selected)
                    ELSE SelectScored(items, i + 1, text_fragments, top_n,
                                      strategy, limit, Append(selected, tokens))

RECURSIVE ScoredDecisions(_, _, _, _, _, _, _, _)
\* intent_analyzer.py:401-423: what the loop does with each item it visits,
\* in priority order (count and used are len(selected) and used_tokens)
ScoredDecisions(items, i, text_fragments, top_n, strategy, limit, count, used) ==
    IF i > Len(items) \/ count >= top_n THEN <<>>
    ELSE LET index == items[i].index
         IN IF ~(0 <= index /\ index < Len(text_fragments))
            THEN <<"bad_index">> \o
                 ScoredDecisions(items, i + 1, text_fragments, top_n, strategy,
                                 limit, count, used)
            ELSE LET words == text_fragments[index + 1].words
                     tokens == IF strategy = "compact_relevance"
                               THEN Min(words, CompactWords) ELSE words
                 IN IF used + tokens > limit
                    THEN <<"over_budget">> \o
                         ScoredDecisions(items, i + 1, text_fragments, top_n,
                                         strategy, limit, count, used)
                    ELSE <<"accepted">> \o
                         ScoredDecisions(items, i + 1, text_fragments, top_n,
                                         strategy, limit, count + 1,
                                         used + tokens)

\* all_relevance.sort(key=_priority, reverse=True) (intent_analyzer.py:396)
SortedByPriority(scored) ==
    LET order == SortedBySimilarity(1..Len(scored),
                    [i \in 1..Len(scored) |->
                        [num |-> scored[i].priority, den |-> 1]])
    IN [i \in 1..Len(order) |-> scored[order[i]]]

\* IntentAnalyzer.get_semantic_relevance; scored is what the scorer's answers
\* add up to (all_relevance with its priorities): a list is returned where
\* the code returns [], a dict where it returns its selection
get_semantic_relevance(api_key, text_fragments, scored, top_n, strategy, limit) ==
    IF ~api_key \/ text_fragments = <<>> \/ scored = <<>>
    THEN [kind |-> "list", tokens |-> <<>>]
    ELSE [ kind |-> "dict",
           tokens |-> SelectScored(SortedByPriority(scored), 1, text_fragments,
                                   top_n, strategy, limit, <<>>) ]

\* MemoryExtractor.extract_relevant_memories: what it returns (the estimated
\* tokens of every returned fragment and the budget they were held to) or
\* that it raised
extract_relevant_memories(texts, outcome, lex) ==
    IF ~outcome.ok THEN [kind |-> "raised", tier |-> "mcp", tokens |-> <<>>,
                         budget |-> MemoryTokenLimit]
    ELSE LET mcp_results == mcp_semantic_search(outcome.hits, DefaultMinScore)
         IN IF mcp_results # <<>>
            THEN [ kind |-> "result", tier |-> "mcp",
                   tokens |-> [i \in 1..Len(mcp_results) |->
                                 _count_tokens(texts[mcp_results[i].at])],
                   budget |-> MemoryTokenLimit ]
            ELSE LET collected == CollectDiaries(lex.diaries, 1, 0,
                                                 MemoryTokenLimit, <<>>)
                     all_fragments == prefilter_fragments(collected, lex.matching)
                     relevance_data ==
                         get_semantic_relevance(lex.api_key, all_fragments,
                             lex.scored, RelevanceTopN, "compact_relevance",
                             RelevanceTokenLimit)
                 IN IF all_fragments = <<>>
                    THEN [kind |-> "result", tier |-> "none", tokens |-> <<>>,
                          budget |-> MemoryTokenLimit]
                    ELSE IF relevance_data.kind = "list"
                    THEN [kind |-> "raised", tier |-> "lexical",
                          tokens |-> <<>>, budget |-> RelevanceTokenLimit]
                    ELSE [kind |-> "result", tier |-> "lexical",
                          tokens |-> relevance_data.tokens,
                          budget |-> RelevanceTokenLimit]

\* search_results of dual_model_integrator.py:216-223: the hits of the
\* search with min_score 0.4 whose score is above 0.45
VectorSearchResults(outcome) ==
    LET Kept(h) == h.score > VectorKeepAbove
    IN SelectSeq(mcp_semantic_search(outcome.hits, VectorMinScore), Kept)

\* DualModelIntegrator.extract_vector_memories; fallback is what
\* extract_relevant_memories does when the search raises
extract_vector_memories(texts, outcome, fallback) ==
    IF ~outcome.ok THEN fallback
    ELSE LET search_results == VectorSearchResults(outcome)
             tokens == [i \in 1..Len(search_results) |->
                          _count_tokens(TruncatedLength(texts[search_results[i].at]))]
         IN [ kind |-> "result", tier |-> "vector_semantic",
              tokens |-> AcceptUntilOver(tokens, 1, 0, MaxTotalTokens),
              budget |-> MaxTotalTokens ]

-----------------------------------------------------------------------------
(* Memory retrieval as a state machine *)

\* a note, a text just over the per-memory cut, a whole diary file
TextLengths == {40, 2004, 12004}
Intents == {"memory_recall", "casual"}

FragmentShort == [chars |-> 120, words |-> 30]
FragmentMid == [chars |-> 4000, words |-> 700]
FragmentLong == [chars |-> 6000, words |-> 1000]

\* the diaries of the memory types asked for, each already cut in fragments
DiaryChoices ==
    { <<>>,
      << <<FragmentShort>> >>,
      << <<FragmentMid, FragmentLong, FragmentMid, FragmentShort>> >>,
      << <<FragmentLong, FragmentLong, FragmentShort>>, <<FragmentShort>> >> }

\* all_relevance as the scorer's answers leave it
ScorerOutcomes ==
    { <<>>,
      << [index |-> 0, priority |-> 90] >>,
      << [index |-> 1, priority |-> 30], [index |-> 0, priority |-> 90] >>,
      << [index |-> 9, priority |-> 99], [index |-> 2, priority |-> 50] >>,
      << [index |-> 0, priority |-> 80], [index |-> 1, priority |-> 70],
         [index |-> 2, priority |-> 60], [index |-> 3, priority |-> 50] >>,
      << [index |-> 0, priority |-> 50], [index |-> 0, priority |-> 50],
         [index |-> 0, priority |-> 50] >> }

\* what the lexical tier reads when the vector store gave nothing: the
\* diaries, the fragments that match the query, the scorer's answers, or no
\* API key for the scorer
LexicalInputs(outcome) ==
    IF outcome.ok /\ mcp_semantic_search(outcome.hits, DefaultMinScore) = <<>>
    THEN [ diaries : DiaryChoices, matching : {1..4},
           api_key : {TRUE}, scored : ScorerOutcomes ]
         \cup { [ diaries |-> << <<FragmentShort>> >>, matching |-> {},
                  api_key |-> FALSE, scored |-> <<>> ] }
    ELSE { [ diaries |-> <<>>, matching |-> {}, api_key |-> FALSE,
             scored |-> <<>> ] }

\* mcp_results of memory_extractor.py:233 is empty
NoVectorHits(outcome) ==
    outcome.ok /\ mcp_semantic_search(outcome.hits, DefaultMinScore) = <<>>

\* all_fragments of memory_extractor.py:321-322
LexicalFragments(lex) ==
    prefilter_fragments(
        CollectDiaries(lex.diaries, 1, 0, MemoryTokenLimit, <<>>), lex.matching)

\* how the relevance scorer answers: it has no API key, its answers leave
\* all_relevance empty (errors, non-200, unparseable or empty replies), or it
\* scores fragments
ScorerAnswer(lex) ==
    IF ~lex.api_key THEN "unavailable"
    ELSE IF lex.scored = <<>> THEN "no_scores" ELSE "scored"

RetrievalCallStep(op, r) ==
    /\ last_call' = [ op |-> op, kind |-> r.kind, tier |-> r.tier,
                      tokens |-> r.tokens, budget |-> r.budget ]
    /\ UNCHANGED << retrievalVars, convVars, emotionVars, turnVars,
                    tableVars >>

\* AstraMCPMemory.store_memory: the metadata and the index after a text of
\* chars characters is stored; without the backend only the metadata entry
\* is written (astra_mcp_memory.py:116-127)
store_memory(texts, index, backend, chars) ==
    IF ~backend
    THEN [texts |-> Append(texts, chars), index |-> index]
    ELSE [ texts |-> Append(texts, chars),
           index |-> Append(index, Len(texts) + 1) ]

\* mcp_memory.store_memory(text, source)
StoreMemory ==
    /\ Len(mcp_texts) < MaxStored
    /\ \E chars \in TextLengths :
         /\ mcp_texts' = store_memory(mcp_texts, mcp_index, mcp_backend,
                                      chars).texts
         /\ mcp_index' = store_memory(mcp_texts, mcp_index, mcp_backend,
                                      chars).index
         /\ last_call' = [op |-> "store_memory"]
         /\ UNCHANGED << mcp_backend, convVars, emotionVars, turnVars,
                         tableVars >>

\* the call as its caller sees it, with how the vector search went: it
\* raised, or so many of its hits passed the minimum score
VectorCallStep(r, outcome) ==
    /\ last_call' = [ op |-> "extract_vector_memories", kind |-> r.kind,
                      tier |-> r.tier, tokens |-> r.tokens,
                      budget |-> r.budget,
                      search |-> IF outcome.ok THEN "answered" ELSE "raised",
                      passing |-> IF outcome.ok
                                  THEN Len(VectorSearchResults(outcome))
                                  ELSE 0 ]
    /\ UNCHANGED << retrievalVars, convVars, emotionVars, turnVars,
                    tableVars >>

\* integrator.extract_vector_memories(user_message, intent_data)
ExtractVectorMemories ==
    \E intent \in Intents :
      \E outcome \in SearchOutcomes(Len(mcp_texts), VectorTopK(intent)) :
        \E again \in (IF outcome.ok THEN { [ok |-> TRUE, hits |-> <<>>] }
                      ELSE SearchOutcomes(Len(mcp_texts), McpTopK)) :
          \E lex \in (IF outcome.ok THEN LexicalInputs([ok |-> FALSE])
                      ELSE LexicalInputs(again)) :
            VectorCallStep(
                extract_vector_memories(mcp_texts, outcome,
                    extract_relevant_memories(mcp_texts, again, lex)),
                outcome)

\* extractor.extract_relevant_memories(user_message, intent_data)
ExtractRelevantMemories ==
    \E outcome \in SearchOutcomes(Len(mcp_texts), McpTopK) :
      \E lex \in LexicalInputs(outcome) :
        LET r == extract_relevant_memories(mcp_texts, outcome, lex)
        IN /\ last_call' = [ op |-> "extract_relevant_memories",
                             kind |-> r.kind, tier |-> r.tier,
                             tokens |-> r.tokens, budget |-> r.budget,
                             no_hits |-> NoVectorHits(outcome),
                             fragments |-> Len(LexicalFragments(lex)),
                             scorer |-> ScorerAnswer(lex) ]
           /\ UNCHANGED << retrievalVars, convVars, emotionVars, turnVars,
                           tableVars >>

\* what a caller of get_semantic_relevance holds: the selection of the
\* returned dict, or the empty list
RelevanceCallResult(r, limit) ==
    [ kind |-> IF r.kind = "dict" THEN "result" ELSE "empty",
      tier |-> "lexical", tokens |-> r.tokens, budget |-> limit ]

\* the call as its caller sees it, with what the selection loop did
RelevanceCallStep(r, decisions) ==
    /\ last_call' = [ op |-> "get_semantic_relevance", kind |-> r.kind,
                      tier |-> r.tier, tokens |-> r.tokens,
                      budget |-> r.budget,
                      decisions |-> IF r.kind = "result" THEN decisions
                                    ELSE <<>> ]
    /\ UNCHANGED << retrievalVars, convVars, emotionVars, turnVars,
                    tableVars >>

\* analyzer.get_semantic_relevance(query, fragments, ...)
GetSemanticRelevance ==
    /\ \E diaries \in DiaryChoices \ {<<>>}, scored \in ScorerOutcomes,
          api_key \in BOOLEAN,
          strategy \in {"compact_relevance", "verbose_emotion"},
          limit \in {RelevanceTokenLimit, DefaultRelevanceLimit} :
            RelevanceCallStep(
                RelevanceCallResult(
                    get_semantic_relevance(api_key, diaries[1], scored,
                                           RelevanceTopN, strategy, limit),
                    limit),
                ScoredDecisions(SortedByPriority(scored), 1, diaries[1],
                                RelevanceTopN, strategy, limit, 0, 0))

InitRetrievalSpec ==
    /\ InitConversation
    /\ embedding_model = FALSE
    /\ InitEmotionMemory
    /\ autonomous_memory = TRUE
    /\ InitRetrieval
    /\ InitTurn
    /\ InitTables

NextRetrieval ==
    \/ StoreMemory
    \/ ExtractVectorMemories
    \/ ExtractRelevantMemories
    \/ GetSemanticRelevance

SpecRetrieval == InitRetrievalSpec /\ [][NextRetrieval]_vars

-----------------------------------------------------------------------------
(* Properties of memory retrieval *)

\* C3: for every retrieval call (the vector tier of extract_vector_memories
\* and of extract_relevant_memories, the lexical tier through
\* get_semantic_relevance) the estimated tokens of the returned fragments
\* add up to no more than the token budget of the call.
C3_ReturnedTokensWithinBudget ==
    ( /\ last_call.op \in { "extract_vector_memories",
                            "extract_relevant_memories",
                            "get_semantic_relevance" }
      /\ last_call.kind = "result" )
        => SumSeq(last_call.tokens) <= last_call.budget


\* C13: extract_relevant_memories returns a result with an empty memory list
\* and no token usage, without raising, whenever the vector store yields no
\* hits and no candidate fragment is collected (no diary source included) or
\* the relevance scorer is unavailable, errors or returns no scores.
C13_EmptyResultWhenNothingFound ==
    ( /\ last_call.op = "extract_relevant_memories"
      /\ last_call.no_hits
      /\ \/ last_call.fragments = 0
         \/ last_call.scorer \in { "unavailable", "no_scores" } )
        => /\ last_call.kind = "result"
           /\ last_call.tokens = <<>>

\* ---------------------------------------------------------------------
\* A turn: the patched send_message of astra_app.py and, behind its
\* except clause, the original send_message of astra_chat.py
\* ---------------------------------------------------------------------

\* a second state the analyzer can return
PlayfulState ==
    [ emotion |-> <<"igrivosth">>, tone |-> "igrivyj",
      subtone |-> <<"iskristyj">>, flavor |-> <<"ostro-sladkij">> ]

\* what EmotionalAnalyzer.analyze_message can return for a message
AnalyzedStates == { DefaultState, PlayfulState }

\* "privet"
UserMessages == { <<"p","r","i","v","e","t">> }

\* what the classifier's reply parses to: an intent without or with an
\* emotional recommendation
ParsedIntents ==
    { [ intent |-> "casual", emotional_context |-> NoneVal ],
      [ intent |-> "intimate",
        emotional_context |-> Some([ tone |-> "igrivyj",
                                     emotions |-> <<"igrivosth">> ]) ] }

\* what a POST to the classifier endpoint can do: answer 200 with a reply
\* that holds JSON, answer another status, raise a RequestException, answer
\* 200 with a reply that holds no parseable JSON, or answer 200 with a body
\* that has no "choices"
ClassifierOutcomes == { "ok", "non200", "transport", "unparseable", "malformed" }

\* the failures of the classifier call that the analyzer handles
ListedFailures == { "non200", "transport", "unparseable" }

\* the dict analyze_intent returns in place of a classification
IntentDefault(label) ==
    [ raised |-> FALSE, intent |-> label, emotional_context |-> NoneVal ]

\* an analyzer that lets every failure of the call escape
analyze_intent_unguarded(api_key, outcome, parsed) ==
    IF api_key /\ outcome = "ok"
    THEN [ raised |-> FALSE, intent |-> parsed.intent,
           emotional_context |-> parsed.emotional_context ]
    ELSE [ raised |-> TRUE ]

\* IntentAnalyzer.analyze_intent: the dict it returns, or that it raised
analyze_intent(api_key, outcome, parsed) ==
    IF ~api_key THEN IntentDefault("unknown")
    ELSE CASE outcome = "non200" -> IntentDefault("error")
           [] outcome = "malformed" -> [ raised |-> TRUE ]
           [] outcome = "ok" ->
                [ raised |-> FALSE, intent |-> parsed.intent,
                  emotional_context |-> parsed.emotional_context ]
           [] outcome = "unparseable" -> IntentDefault("parse_error")
           [] outcome = "transport" -> IntentDefault("request_error")

\* IntentAnalyzer.analyze_user_style: whether the dict it returns holds
\* "error", or that it raised
analyze_user_style(api_key, outcome) ==
    IF ~api_key THEN [ raised |-> FALSE, error |-> TRUE ]
    ELSE CASE outcome = "malformed" -> [ raised |-> TRUE ]
           [] outcome = "ok" -> [ raised |-> FALSE, error |-> FALSE ]
           [] OTHER -> [ raised |-> FALSE, error |-> TRUE ]

\* what extract_vector_memories can do: return memories, return none, raise
RetrievalOutcomes == { "memories", "none", "raised" }

\* what the POST to the generation endpoint can do: answer 200 with a
\* completion, answer another status, raise a RequestException, or answer
\* 200 with a body that has no "choices"
GenerationOutcomes == { "ok", "non200", "transport", "malformed" }

\* the completion text of a 200 answer
AssistantMessage == <<"d","a">>
\* "Proizoshla oshibka pri obrashenii k API. Kod: 500"
ApiStatusError == <<"K","o","d",":"," ","5","0","0">>
\* "Proizoshla oshibka pri generacii otveta: ..."
RequestError == <<"o","s","h","i","b","k","a">>
\* "Prosti, u menya voznikli problemy s podklucheniem. Mojesh povtorit?"
ConnectionApology == <<"P","r","o","s","t","i",",","?">>
\* "Prosti, proizoshla oshibka pri obrabotke tvoego soobsheniya."
ProcessingApology == <<"P","r","o","s","t","i",".">>

\* ConversationManager.get_api_context
get_api_context(cm) == cm.api

\* the emotional state step 4 of generate_integrated_response settles on
ResolveState(emotional_state, intent_data, current) ==
    IF emotional_state # NoneVal THEN emotional_state[1]
    ELSE IF intent_data.emotional_context # NoneVal
         THEN [ tone |-> intent_data.emotional_context[1].tone,
                emotion |-> intent_data.emotional_context[1].emotions,
                subtone |-> <<"drojashij">>,
                flavor |-> <<"medovo-tekucij">> ]
         ELSE current

\* generate_final_response: the string it returns for an outcome of the POST
generate_final_response(outcome) ==
    CASE outcome = "ok" -> AssistantMessage
      [] outcome = "non200" -> ApiStatusError
      [] outcome = "transport" -> RequestError

\* AstraMemory.save_current_state
save_current_state(state) ==
    /\ current_state' = state
    /\ current_state_file' = state

Logged(stages) == [turn EXCEPT !.log = @ \o stages]

\* enhanced_send_message is entered: the user message goes to the history
ReceiveMessage ==
    /\ pc = "idle"
    /\ turns < MaxTurns
    /\ \E user_message \in UserMessages :
         /\ SetCM(add_message(CM, "user", user_message, clock + 1, "None"))
         /\ appended' = Append(appended, [role |-> "user",
                                          content |-> user_message,
                                          timestamp |-> clock + 1])
         /\ clock' = clock + 1
         /\ turn' = [ done |-> FALSE,
                      user_message |-> user_message,
                      before |-> [ state |-> current_state,
                                   state_file |-> current_state_file,
                                   history_file |-> history_file,
                                   history |-> full_conversation_history ],
                      state |-> NoneVal,
                      conversation_context |-> <<>>,
                      classifier |-> [ api_key |-> TRUE, intent |-> "none",
                                       style |-> "none" ],
                      raised_in |-> "none",
                      intent_data |-> NoneVal,
                      style_mirroring |-> FALSE,
                      memory_used |-> FALSE,
                      emotional_state |-> NoneVal,
                      generation |-> "none",
                      generate_calls |-> 0,
                      fallback |-> FALSE,
                      response |-> NoneVal,
                      log |-> << "PERSIST" >> ]
    /\ pc' = "process"
    /\ last_call' = [op |-> "send_message"]
    /\ UNCHANGED << turns, current_state, current_state_file, history_file,
                    emotionVars, retrievalVars, tableVars >>

\* process_user_message: the analyzer's state is saved at once
ProcessUserMessage ==
    /\ pc = "process"
    /\ \E state \in AnalyzedStates :
         /\ save_current_state(state)
         /\ turn' = [ Logged(<< "RESOLVE_EMOTION", "PERSIST" >>)
                        EXCEPT !.state = Some(state) ]
    /\ pc' = "context"
    /\ UNCHANGED << convVars, last_call, turns, history_file,
                    emotionVars, retrievalVars, tableVars >>

\* conversation_context = get_api_context()
SelectContext ==
    /\ pc = "context"
    /\ turn' = [ Logged(<< "SELECT_CONTEXT" >>)
                   EXCEPT !.conversation_context = get_api_context(CM) ]
    /\ pc' = "classify"
    /\ UNCHANGED << convVars, last_call, turns, current_state,
                    current_state_file, history_file,
                    emotionVars, retrievalVars, tableVars >>

\* steps 1 and 2 of generate_integrated_response; an exception of either
\* analyzer call leaves generate_integrated_response
Classify ==
    /\ pc = "classify"
    /\ \E api_key \in BOOLEAN, intent_outcome \in ClassifierOutcomes,
          style_outcome \in ClassifierOutcomes, parsed \in ParsedIntents :
         LET intent_data == analyze_intent(api_key, intent_outcome, parsed)
             style_data == analyze_user_style(api_key, style_outcome)
             raised == intent_data.raised \/ style_data.raised
         IN /\ turn' =
                 [ Logged(<< "CLASSIFY" >>)
                     EXCEPT !.classifier =
                               [ api_key |-> api_key,
                                 intent |-> IF api_key THEN intent_outcome
                                            ELSE "not_sent",
                                 style |-> IF intent_data.raised
                                           THEN "not_called"
                                           ELSE IF api_key THEN style_outcome
                                           ELSE "not_sent" ],
                            !.raised_in = IF raised THEN "classify" ELSE @,
                            !.intent_data = IF intent_data.raised THEN NoneVal
                                            ELSE Some(intent_data),
                            !.style_mirroring =
                               ~raised /\ ~style_data.error ]
            /\ pc' = IF raised THEN "fallback" ELSE "retrieve"
    /\ UNCHANGED << convVars, last_call, turns, current_state,
                    current_state_file, history_file,
                    emotionVars, retrievalVars, tableVars >>

\* step 3; an exception leaves generate_integrated_response and is caught
\* by enhanced_send_message
RetrieveMemory ==
    /\ pc = "retrieve"
    /\ \E outcome \in RetrievalOutcomes :
         /\ turn' = [ Logged(<< "RETRIEVE_MEMORY" >>)
                        EXCEPT !.memory_used = (outcome = "memories"),
                               !.raised_in = IF outcome = "raised"
                                             THEN "retrieve" ELSE @ ]
         /\ pc' = IF outcome = "raised" THEN "fallback" ELSE "assemble"
    /\ UNCHANGED << convVars, last_call, turns, current_state,
                    current_state_file, history_file,
                    emotionVars, retrievalVars, tableVars >>

\* steps 4 and 5: the state is resolved only when the caller passed none
AssemblePrompt ==
    /\ pc = "assemble"
    /\ turn' = [ Logged(IF turn.state = NoneVal
                        THEN << "RESOLVE_EMOTION", "ASSEMBLE_PROMPT" >>
                        ELSE << "ASSEMBLE_PROMPT" >>)
                   EXCEPT !.emotional_state =
                            Some(ResolveState(turn.state, turn.intent_data[1],
                                              current_state)) ]
    /\ pc' = "generate"
    /\ UNCHANGED << convVars, last_call, turns, current_state,
                    current_state_file, history_file,
                    emotionVars, retrievalVars, tableVars >>

\* step 6: generate_final_response posts once; a body without "choices"
\* raises out of generate_integrated_response
Generate ==
    /\ pc = "generate"
    /\ \E outcome \in GenerationOutcomes :
         /\ turn' = [ Logged(<< "GENERATE" >>)
                        EXCEPT !.generation = outcome,
                               !.generate_calls = @ + 1,
                               !.raised_in = IF outcome = "malformed"
                                             THEN "generate" ELSE @,
                               !.response =
                                  IF outcome = "malformed" THEN NoneVal
                                  ELSE Some(generate_final_response(outcome)) ]
         /\ pc' = IF outcome = "malformed" THEN "fallback" ELSE "persist"
    /\ UNCHANGED << convVars, last_call, turns, current_state,
                    current_state_file, history_file,
                    emotionVars, retrievalVars, tableVars >>

\* the rest of enhanced_send_message: whatever string came back is stored
Persist ==
    /\ pc = "persist"
    /\ save_current_state(turn.emotional_state[1])
    /\ LET cm == add_message(CM, "assistant", turn.response[1], clock + 1,
                             "None")
       IN /\ SetCM(cm)
          /\ history_file' = cm.full
    /\ appended' = Append(appended, [role |-> "assistant",
                                     content |-> turn.response[1],
                                     timestamp |-> clock + 1])
    /\ clock' = clock + 1
    /\ turn' = [ Logged(<< "PERSIST" >>) EXCEPT !.done = TRUE ]
    /\ turns' = turns + 1
    /\ pc' = "idle"
    /\ UNCHANGED << last_call, emotionVars, retrievalVars, tableVars >>

\* the except clause of enhanced_send_message: original_send_message runs
\* from its first line. composed is whether compose_layered_reply returned.
FallbackSendMessage ==
    /\ pc = "fallback"
    /\ \E state \in AnalyzedStates, composed \in BOOLEAN,
          outcome \in GenerationOutcomes :
         LET user == [role |-> "user", content |-> turn.user_message,
                      timestamp |-> clock + 1]
             cm1 == add_message(CM, "user", turn.user_message, clock + 1,
                                "None")
             answered == composed /\ outcome \in {"ok", "non200"}
             final_response ==
                 IF ~composed \/ outcome = "malformed" THEN ProcessingApology
                 ELSE IF outcome = "transport" THEN ConnectionApology
                 ELSE IF outcome = "non200" THEN ApiStatusError
                 ELSE AssistantMessage
             cm2 == add_message(cm1, "assistant", final_response, clock + 2,
                                "None")
             stages ==
                 << "PERSIST", "RESOLVE_EMOTION", "PERSIST" >>
                 \o (IF composed
                     THEN << "SELECT_CONTEXT", "ASSEMBLE_PROMPT", "GENERATE" >>
                     ELSE <<>>)
                 \o (IF answered THEN << "PERSIST" >> ELSE <<>>)
         IN /\ save_current_state(state)
            /\ SetCM(IF answered THEN cm2 ELSE cm1)
            /\ appended' =
                 IF answered
                 THEN appended \o << user, [role |-> "assistant",
                                            content |-> final_response,
                                            timestamp |-> clock + 2] >>
                 ELSE Append(appended, user)
            /\ clock' = IF answered THEN clock + 2 ELSE clock + 1
            /\ history_file' = IF answered THEN cm2.full ELSE history_file
            /\ turn' = [ Logged(stages)
                           EXCEPT !.done = TRUE,
                                  !.fallback = TRUE,
                                  !.state = Some(state),
                                  !.generation =
                                     IF composed THEN outcome ELSE @,
                                  !.generate_calls =
                                     IF composed THEN @ + 1 ELSE @,
                                  !.response = Some(final_response) ]
    /\ turns' = turns + 1
    /\ pc' = "idle"
    /\ UNCHANGED << last_call, emotionVars, retrievalVars, tableVars >>

InitTurnSpec ==
    /\ InitConversation
    /\ embedding_model = FALSE
    /\ InitEmotionMemory
    /\ autonomous_memory = TRUE
    /\ InitRetrieval
    /\ InitTurn
    /\ InitTables

NextTurn ==
    \/ ReceiveMessage
    \/ ProcessUserMessage
    \/ SelectContext
    \/ Classify
    \/ RetrieveMemory
    \/ AssemblePrompt
    \/ Generate
    \/ Persist
    \/ FallbackSendMessage

SpecTurn == InitTurnSpec /\ [][NextTurn]_vars

\* the turn is over and its last call of the generation endpoint failed
GenerationFailed ==
    /\ pc = "idle"
    /\ turn.done
    /\ turn.generation \in {"non200", "transport"}

\* C1: when the generation endpoint call fails during a turn (another
\* status than 200, or a transport error) the turn returns a fallback
\* message, and the persisted current state and the conversation history,
\* in memory and on disk, are what they were before the turn began
C1_FailedGenerationPersistsNothing ==
    GenerationFailed =>
        /\ turn.response \in { Some(ApiStatusError), Some(RequestError),
                               Some(ConnectionApology),
                               Some(ProcessingApology) }
        /\ current_state_file = turn.before.state_file
        /\ history_file = turn.before.history_file
        /\ full_conversation_history = turn.before.history

\* the rank of a stage in the fixed order
StageRank(stage) ==
    CASE stage = "CLASSIFY" -> 1
      [] stage = "RETRIEVE_MEMORY" -> 2
      [] stage = "RESOLVE_EMOTION" -> 3
      [] stage = "SELECT_CONTEXT" -> 4
      [] stage = "ASSEMBLE_PROMPT" -> 5
      [] stage = "GENERATE" -> 6
      [] stage = "PERSIST" -> 7

\* C2: within a turn the stages run in the order CLASSIFY, RETRIEVE_MEMORY,
\* RESOLVE_EMOTION, SELECT_CONTEXT, ASSEMBLE_PROMPT, GENERATE, PERSIST, and
\* every write of the current state and every append to the history
\* (PERSIST) comes after GENERATE has returned
C2_StagesInFixedOrder ==
    pc # "idle" \/ turn.done =>
        /\ \A i, j \in 1..Len(turn.log) :
             i < j => StageRank(turn.log[i]) <= StageRank(turn.log[j])
        /\ \A i \in 1..Len(turn.log) :
             turn.log[i] = "PERSIST" =>
                \E j \in 1..(i - 1) : turn.log[j] = "GENERATE"


-----------------------------------------------------------------------------
(* The emotional state engine: astra_memory.py:700-834 and                 *)
(* emotional_analyzer.py:17-203.  A state is [tone, emotion, subtone,      *)
(* flavor]; a tone that is Python's None is written NoTone.                *)

NoTone == "None"

\* the state a trigger sets (astra_memory.py:717-722)
TriggerState(sets) ==
    [ tone |-> IF sets.tone = NoneVal THEN NoTone ELSE sets.tone[1],
      emotion |-> IF sets.emotion # NoneVal /\ sets.emotion[1] # ""
                  THEN << sets.emotion[1] >> ELSE <<>>,
      subtone |-> IF sets.subtone # NoneVal /\ sets.subtone[1] # ""
                  THEN << sets.subtone[1] >> ELSE <<>>,
      flavor |-> sets.flavor ]

\* the position of the first registered trigger whose phrase, lower case, is
\* a substring of the lower-case message; 0 when there is none
FirstTrigger(triggers, message) ==
    LET found == { i \in 1..Len(triggers) :
                     StrContains(StrLower(message), StrLower(triggers[i].trigger)) }
    IN IF found = {} THEN 0
       ELSE CHOOSE i \in found : \A j \in found : i <= j

\* EmotionalAnalyzer.check_state_triggers
check_state_triggers(triggers, message) ==
    LET at == FirstTrigger(triggers, message)
    IN IF at = 0 THEN NoneVal ELSE Some(TriggerState(triggers[at].sets))

\* match.get("tone") or match.get("emotion") or match.get("subtone") or
\* match.get("flavor") (astra_memory.py:728)
HasAnyField(entry) ==
    \/ entry.tone # NoneVal /\ entry.tone[1] # ""
    \/ entry.emotion # NoneVal /\ entry.emotion[1] # <<>>
    \/ entry.subtone # NoneVal /\ entry.subtone[1] # <<>>
    \/ entry.flavor # NoneVal /\ entry.flavor[1] # <<>>

\* the match decide_response_emotion reads its state from (line 732)
ChosenMatch(matched_items) == matched_items[Len(matched_items)]

\* the state read from a match (lines 734-755): the entries hold their tone,
\* subtones and flavors as plain strings, never as {"label": ...} objects, so
\* only the emotion list is taken over
MatchState(entry) ==
    [ tone |-> NoTone,
      emotion |-> DictGet(entry.emotion, <<>>),
      subtone |-> <<>>,
      flavor |-> <<>> ]

\* a resolution that falls back on the default state
decide_default_emotion(memory, triggers, current, context) ==
    LET analysis == semantic_match(memory, context, DefaultMatchThreshold)
        at == FirstTrigger(triggers, context)
        HasField(i) == HasAnyField(memory[i])
        matched_items == SelectSeq(analysis, HasField)
    IN IF at # 0 THEN TriggerState(triggers[at].sets)
       ELSE IF matched_items # <<>>
            THEN MatchState(memory[ChosenMatch(matched_items)])
            ELSE DefaultState

\* AstraMemory.decide_response_emotion
decide_response_emotion(memory, triggers, current, context) ==
    LET analysis == semantic_match(memory, context, DefaultMatchThreshold)
        at == FirstTrigger(triggers, context)
        HasField(i) == HasAnyField(memory[i])
        matched_items == SelectSeq(analysis, HasField)
    IN IF at # 0 THEN TriggerState(triggers[at].sets)
       ELSE IF matched_items # <<>>
            THEN MatchState(memory[ChosenMatch(matched_items)])
            ELSE current

\* "ty takaya": one of the patterns of emotional_analyzer.py:132-138
EmotionPattern == <<"t","y"," ","t","a","k","a","y","a">>

\* marker tables of emotional_analyzer.py:56-129, the rows the messages of
\* the model can hit
ToneMarkers == << [marker |-> <<"n","e","j","n">>, label |-> "nejnyj"],
                 [marker |-> <<"i","g","r","i","v">>, label |-> "igrivyj"] >>
FlavorMarkers == << [marker |-> <<"m","e","d","o","v","o">>, label |-> "medovo-tekucij"] >>
SubtoneMarkers == << [marker |-> <<"d","r","o","j","a","s","h">>, label |-> "drojashij"] >>
EmotionMarkers == << [marker |-> <<"n","e","j","n","o","s","t">>, label |-> "nejnosth"],
                    [marker |-> <<"i","g","r","i","v">>, label |-> "igrivosth"] >>

\* the first position at which pattern starts in text, 0 when nowhere
FindFirst(text, pattern) ==
    LET at == { i \in 1..(Len(text) - Len(pattern) + 1) :
                  SubSeq(text, i, i + Len(pattern) - 1) = pattern }
    IN IF at = {} THEN 0 ELSE CHOOSE i \in at : \A j \in at : i <= j

\* text.split(pattern)[1] for a text that contains pattern
AfterPattern(text, pattern) ==
    LET i == FindFirst(text, pattern)
        rest == SubSeq(text, i + Len(pattern), Len(text))
        j == FindFirst(rest, pattern)
    IN IF j = 0 THEN rest ELSE SubSeq(rest, 1, j - 1)

\* the labels of the rows of table whose marker is in text, in table order
MarkerLabels(table, text) ==
    LET Hit(row) == StrContains(text, row.marker)
        rows == SelectSeq(table, Hit)
    IN [i \in 1..Len(rows) |-> rows[i].label]

\* EmotionalAnalyzer.detect_emotional_markers
detect_emotional_markers(message) ==
    LET message_lower == StrLower(message)
    IN IF ~StrContains(message_lower, EmotionPattern) THEN NoneVal
       ELSE LET after_pattern == AfterPattern(message_lower, EmotionPattern)
                tones == MarkerLabels(ToneMarkers, after_pattern)
                found_state ==
                    [ tone |-> IF tones = <<>> THEN NoTone ELSE tones[Len(tones)],
                      emotion |-> MarkerLabels(EmotionMarkers, after_pattern),
                      subtone |-> MarkerLabels(SubtoneMarkers, after_pattern),
                      flavor |-> MarkerLabels(FlavorMarkers, after_pattern) ]
            IN IF tones = <<>> /\ found_state.emotion = <<>>
                  /\ found_state.subtone = <<>> /\ found_state.flavor = <<>>
               THEN NoneVal ELSE Some(found_state)

\* EmotionalAnalyzer.analyze_message
analyze_message(memory, triggers, current, message) ==
    LET emotional_markers == detect_emotional_markers(message)
        trigger_state == check_state_triggers(triggers, message)
    IN IF emotional_markers # NoneVal THEN emotional_markers[1]
       ELSE IF trigger_state # NoneVal THEN trigger_state[1]
       ELSE decide_response_emotion(memory, triggers, current, message)


\* "legkaya teplota", the filler of line 804
MildWarmth == "legkaya teplota"

\* an emotion list that is the target's alone
ReplacedEmotions(prev, new) == new

\* lines 804-807: the previous emotions, the filler when neither list has
\* it, then the new emotions that are not there yet
MergedEmotions(prev, new) ==
    LET start == IF ~InList(MildWarmth, prev) /\ ~InList(MildWarmth, new)
                 THEN Append(prev, MildWarmth) ELSE prev
        NotThere(em) == ~InList(em, start)
    IN start \o DedupMessages(SelectSeq(new, NotThere), <<>>)

\* AstraMemory._smooth_transition_state
_smooth_transition_state(current, target_state) ==
    [ tone |-> IF target_state.tone \notin {NoTone, ""}
                  /\ target_state.tone # current.tone
               THEN target_state.tone ELSE current.tone,
      emotion |-> IF target_state.emotion # <<>>
                     /\ current.emotion # target_state.emotion
                  THEN MergedEmotions(current.emotion, target_state.emotion)
                  ELSE current.emotion,
      subtone |-> IF target_state.subtone # <<>>
                     /\ ToSet(target_state.subtone) # ToSet(current.subtone)
                  THEN target_state.subtone ELSE current.subtone,
      flavor |-> IF target_state.flavor # <<>>
                    /\ ToSet(target_state.flavor) # ToSet(current.flavor)
                 THEN target_state.flavor ELSE current.flavor ]

\* AstraMemory.add_new_trigger with sets given
add_new_trigger(triggers, trigger_phrase, sets) ==
    LET found == { i \in 1..Len(triggers) : triggers[i].trigger = trigger_phrase }
    IN IF found # {}
       THEN LET at == CHOOSE i \in found : \A j \in found : i <= j
            IN [triggers EXCEPT ![at].sets = sets]
       ELSE Append(triggers, [trigger |-> trigger_phrase, sets |-> sets])

-----------------------------------------------------------------------------
(* The emotional state engine as a state machine *)

\* triggers registered and emotion entries remembered
MaxTriggers == 2
MaxEntries == 2

\* "Solnce" sets a playful state, "moe" a tender one
TriggerArgs ==
    { [ trigger |-> <<"S","o","l","n","c","e">>,
        sets |-> [ tone |-> Some("igrivyj"), emotion |-> Some("igrivosth"),
                   subtone |-> NoneVal, flavor |-> <<>> ] ],
      [ trigger |-> <<"m","o","e">>,
        sets |-> [ tone |-> Some("nejnyj"), emotion |-> NoneVal,
                   subtone |-> Some("drojashij"),
                   flavor |-> << "medovo-tekucij" >> ] ] }

\* "solnce" and "solnc", remembered with one emotion each
RememberArgs ==
    { [phrase |-> ph, emotion |-> em] :
        ph \in { <<"s","o","l","n","c","e">>, <<"s","o","l","n","c">> },
        em \in { PyStr("grust"), PyStr("radost") } }

\* "Solnce", "ty takaya nejnaya, moe", "poka"
ResolveMessages ==
    { <<"S","o","l","n","c","e">>,
      <<"t","y"," ","t","a","k","a","y","a"," ","n","e","j","n","a","y","a",
        ","," ","m","o","e">>,
      <<"p","o","k","a">> }

\* a state with two emotions, one of them the filler
WarmState ==
    [ emotion |-> << "radost", MildWarmth >>, tone |-> "nejnyj",
      subtone |-> <<"drojashij">>, flavor |-> <<"medovo-tekucij">> ]

\* the state detect_emotional_markers reads from "ty takaya nejnaya", which
\* process_message saves (astra_chat.py:70): a tone and no emotion
ToneOnlyState ==
    [ emotion |-> <<>>, tone |-> "nejnyj", subtone |-> <<>>, flavor |-> <<>> ]

ResolveStates == { DefaultState, PlayfulState, WarmState, ToneOnlyState }

\* memory.add_new_trigger(trigger_phrase, sets)
AddNewTrigger ==
    /\ Len(trigger_phrases) < MaxTriggers
    /\ \E t \in TriggerArgs :
         trigger_phrases' = add_new_trigger(trigger_phrases, t.trigger, t.sets)
    /\ last_call' = [op |-> "add_new_trigger"]
    /\ UNCHANGED << convVars, emotionVars, retrievalVars, turnVars,
                    tone_memory, subtone_memory, flavor_memory >>

\* the effect of add_emotion_to_phrase on the memory and its file
RememberStep(r) ==
    /\ emotion_memory' = r.memory
    /\ emotion_file' = IF r.saves > 0 THEN r.memory ELSE emotion_file
    /\ last_call' = [op |-> "add_emotion_to_phrase"]
    /\ UNCHANGED << autonomous_memory, emotion_calls, convVars, retrievalVars,
                    turnVars, tableVars >>

\* memory.add_emotion_to_phrase(phrase, emotion)
RememberEmotion ==
    /\ Len(emotion_memory) < MaxEntries
    /\ \E a \in RememberArgs :
         RememberStep(add_emotion_to_phrase(emotion_memory, a.phrase,
                                            a.emotion, NoneVal, PyNone,
                                            PyNone))

\* memory.save_current_state(state)
SaveCurrentState ==
    /\ \E state \in ResolveStates : save_current_state(state)
    /\ last_call' = [op |-> "save_current_state"]
    /\ UNCHANGED << pc, turn, turns, history_file, convVars, emotionVars,
                    retrievalVars, tableVars >>

\* a call that reads the memory and returns a state
ResolveCallStep(call) ==
    /\ last_call' = call
    /\ UNCHANGED << convVars, emotionVars, retrievalVars, turnVars, tableVars >>

\* memory.decide_response_emotion(message)
DecideResponseEmotion ==
    /\ trigger_phrases # <<>> \/ emotion_memory # <<>>
    /\ \E message \in ResolveMessages :
         ResolveCallStep(
            [ op |-> "decide_response_emotion", message |-> message,
              result |-> decide_response_emotion(emotion_memory, trigger_phrases,
                                                 current_state, message) ])

\* emotional_analyzer.analyze_message(message)
AnalyzeMessage ==
    /\ trigger_phrases # <<>> \/ emotion_memory # <<>>
    /\ \E message \in ResolveMessages :
         ResolveCallStep(
            [ op |-> "analyze_message", message |-> message,
              result |-> analyze_message(emotion_memory, trigger_phrases,
                                         current_state, message) ])

\* memory._smooth_transition_state(target_state)
SmoothTransitionState ==
    /\ last_call.op # "_smooth_transition_state"
    /\ \E target_state \in ResolveStates :
         ResolveCallStep(
            [ op |-> "_smooth_transition_state", target |-> target_state,
              prior |-> current_state,
              result |-> _smooth_transition_state(current_state, target_state) ])

InitResolve ==
    /\ InitConversation
    /\ embedding_model = FALSE
    /\ InitEmotionMemory
    /\ autonomous_memory = TRUE
    /\ InitRetrieval
    /\ InitTurn
    /\ InitTables

NextResolve ==
    \/ AddNewTrigger
    \/ RememberEmotion
    \/ SaveCurrentState
    \/ DecideResponseEmotion
    \/ AnalyzeMessage
    \/ SmoothTransitionState

SpecResolve == InitResolve /\ [][NextResolve]_vars

-----------------------------------------------------------------------------
(* Properties of the emotional state engine *)

\* C11: when the message contains a registered trigger phrase (as a
\* substring, whatever the case) the resolved state is the one that trigger
\* sets, also when an emotion entry matches the message.
C11_TriggerOverridesFuzzyMatch ==
    ( /\ last_call.op \in { "decide_response_emotion", "analyze_message" }
      /\ FirstTrigger(trigger_phrases, last_call.message) # 0 )
        => last_call.result =
             TriggerState(
                trigger_phrases[FirstTrigger(trigger_phrases,
                                             last_call.message)].sets)

\* C12: when the target's and the current state's emotion lists are both
\* non-empty and share no emotion, the list _smooth_transition_state returns
\* holds every emotion of the current state and at least one more.
C12_SmoothTransitionKeepsPrior ==
    ( /\ last_call.op = "_smooth_transition_state"
      /\ last_call.target.emotion # <<>>
      /\ last_call.prior.emotion # <<>>
      /\ ToSet(last_call.target.emotion) \cap ToSet(last_call.prior.emotion) = {} )
        => /\ ToSet(last_call.prior.emotion) \subseteq ToSet(last_call.result.emotion)
           /\ ToSet(last_call.result.emotion) # ToSet(last_call.prior.emotion)

\* from tenderness to playfulness: the filler and the new emotion follow
C12_Witness ==
    /\ last_call.op = "_smooth_transition_state"
    /\ last_call.prior = DefaultState
    /\ last_call.target = PlayfulState
    /\ last_call.result.emotion = << "nejnosth", MildWarmth, "igrivosth" >>
    /\ last_call.result.tone = "igrivyj"

-----------------------------------------------------------------------------
(* Properties of a turn's classification and emotional state *)

\* the turn has run its classification stage
Classified ==
    /\ pc # "idle" \/ turn.done
    /\ turn.classifier.intent # "none"

\* C14: when the intent or the style classifier call fails (a status other
\* than 200, a transport error, a reply without parseable JSON)
\* analyze_intent and analyze_user_style return their default instead of
\* raising, and the turn goes on: classification is not where the turn
\* left generate_integrated_response, and a turn in which no later stage
\* raised has called the generation endpoint.
C14_ClassifierFailureYieldsDefault ==
    ( /\ Classified
      /\ turn.classifier.intent \in ListedFailures \cup {"ok"}
      /\ turn.classifier.style \in ListedFailures \cup {"ok", "not_called"}
      /\ \/ turn.classifier.intent \in ListedFailures
         \/ turn.classifier.style \in ListedFailures )
        => /\ turn.raised_in # "classify"
           /\ turn.classifier.intent \in ListedFailures =>
                 /\ turn.intent_data # NoneVal
                 /\ turn.intent_data[1].intent
                       \in { "error", "request_error", "parse_error" }
                 /\ turn.intent_data[1].emotional_context = NoneVal
           /\ turn.classifier.style \in ListedFailures =>
                 ~turn.style_mirroring
           /\ (turn.done /\ turn.raised_in = "none") =>
                 turn.generate_calls = 1

\* both classifier calls failed and the turn still answered from one call
\* of the generation endpoint
C14_Witness ==
    /\ Classified
    /\ turn.done
    /\ turn.classifier.intent = "transport"
    /\ turn.classifier.style = "non200"
    /\ turn.intent_data = Some(IntentDefault("request_error"))
    /\ turn.raised_in = "none"
    /\ turn.generate_calls = 1
    /\ turn.response = Some(AssistantMessage)

\* C15: the emotional state a turn uses is the classifier's emotional
\* context recommendation whenever the classifier gave one, and the state
\* of the emotional state engine (or, failing that, the last known state)
\* only when it gave none.
C15_RecommendationComesFirst ==
    ( /\ Classified
      /\ turn.intent_data # NoneVal
      /\ turn.emotional_state # NoneVal )
        => turn.emotional_state[1] =
              IF turn.intent_data[1].emotional_context # NoneVal
              THEN ResolveState(NoneVal, turn.intent_data[1],
                                turn.before.state)
              ELSE IF turn.state # NoneVal THEN turn.state[1]
              ELSE turn.before.state

\* C16: in every turn handled by send_message the generation endpoint is
\* called exactly once, whichever stage fails, the fall back to the
\* original send_message included.
C16_GenerationCalledExactlyOnce ==
    (pc = "idle" /\ turn.done) => turn.generate_calls = 1

-----------------------------------------------------------------------------
(* Properties of the API window *)

\* the last k of the messages add_message was given, as (role, content)
LastAppended(k) ==
    [ i \in 1..k |-> ApiMessage(appended[Len(appended) - k + i]) ]

\* C18: after any sequence of add_message calls the window get_api_context
\* returns holds at most 20 messages, and they are exactly the most
\* recently appended messages (role and content), in append order.
C18_ApiWindowIsLatestTwenty ==
    /\ Len(get_api_context(CM)) <= ApiWindow
    /\ get_api_context(CM) = LastAppended(Min(ApiWindow, Len(appended)))

\* more than 20 messages were added, one was summarized away, and the
\* window starts at the 20th newest
C18_Witness ==
    /\ Len(appended) > DefaultMaxRecent
    /\ Len(get_api_context(CM)) = ApiWindow
    /\ get_api_context(CM)[1] =
          ApiMessage(appended[Len(appended) - ApiWindow + 1])
    /\ get_api_context(CM)[ApiWindow] = ApiMessage(appended[Len(appended)])

-----------------------------------------------------------------------------
(* The automatic updates of the memory as a state machine *)

\* "da" and "net"
HeardPhrases == { <<"d","a">>, <<"n","e","t">> }
DetectedEmotions == { PyNone, PyStr("radost") }
DetectedTones == { NoneVal, Some(""), Some("nejnyj") }
DetectedSubtones == { PyNone, PyList(<<"drojashij", "iskristyj">>) }
DetectedFlavors == { PyNone, PyStr("medovo-tekucij") }

\* the examples a table holds
TotalExamples(table) ==
    SumSeq([i \in 1..Len(table) |-> Len(table[i].examples)])

\* the effect of an automatic update on the memory object and its files;
\* r holds the emotion memory and whether it was saved
AutoUpdateStep(op, phrase, r, tones, subtones, flavors) ==
    /\ emotion_memory' = r.memory
    /\ emotion_file' = IF r.saves > 0 THEN r.memory ELSE emotion_file
    /\ tone_memory' = tones
    /\ subtone_memory' = subtones
    /\ flavor_memory' = flavors
    /\ last_call' = [op |-> op, phrase |-> phrase]
    /\ UNCHANGED << autonomous_memory, emotion_calls, trigger_phrases,
                    convVars, retrievalVars, turnVars >>

\* an update of one table: r holds the emotion memory and the table
TableUpdateStep(op, phrase, r) ==
    AutoUpdateStep(op, phrase, r,
                   IF op = "auto_update_tone" THEN r.table ELSE tone_memory,
                   IF op = "auto_update_subtone" THEN r.table
                   ELSE subtone_memory,
                   IF op = "auto_update_flavor" THEN r.table
                   ELSE flavor_memory)

\* memory.add_emotion_to_phrase("da", "grust") and
\* memory.add_new_tone("nejnyj", examples=["net"]), as the commands of the
\* user call them
TeachByCommand ==
    /\ \/ /\ Len(emotion_memory) < MaxTaught
          /\ AutoUpdateStep("add_emotion_to_phrase", <<"d","a">>,
                add_emotion_to_phrase(emotion_memory, <<"d","a">>,
                                      PyStr("grust"), NoneVal, PyNone, PyNone),
                tone_memory, subtone_memory, flavor_memory)
       \/ /\ TotalExamples(tone_memory) < MaxTaught
          /\ AutoUpdateStep("add_new_tone", <<"n","e","t">>,
               [memory |-> emotion_memory, saves |-> 0],
               add_new_tone(tone_memory, "nejnyj", << <<"n","e","t">> >>),
               subtone_memory, flavor_memory)

\* memory.auto_update_emotion(phrase, detected_emotion)
AutoUpdateEmotionOfPhrase ==
    /\ last_call.op # "auto_update_emotion"
    /\ \E phrase \in HeardPhrases, detected \in DetectedEmotions :
         AutoUpdateStep("auto_update_emotion", phrase,
             auto_update_emotion(emotion_memory, autonomous_memory, phrase,
                                 detected),
             tone_memory, subtone_memory, flavor_memory)

\* memory.auto_update_tone(phrase, detected_tone)
AutoUpdateTone ==
    /\ last_call.op # "auto_update_tone"
    /\ \E phrase \in HeardPhrases, detected \in DetectedTones :
         TableUpdateStep("auto_update_tone", phrase,
             auto_update_tone(emotion_memory, tone_memory, autonomous_memory,
                              phrase, detected))

\* memory.auto_update_subtone(phrase, detected_subtone)
AutoUpdateSubtone ==
    /\ last_call.op # "auto_update_subtone"
    /\ \E phrase \in HeardPhrases, detected \in DetectedSubtones :
         TableUpdateStep("auto_update_subtone", phrase,
             auto_update_subtone(emotion_memory, subtone_memory,
                                 autonomous_memory, phrase, detected))

\* memory.auto_update_flavor(phrase, detected_flavor)
AutoUpdateFlavor ==
    /\ last_call.op # "auto_update_flavor"
    /\ \E phrase \in HeardPhrases, detected \in DetectedFlavors :
         TableUpdateStep("auto_update_flavor", phrase,
             auto_update_flavor(emotion_memory, flavor_memory,
                                autonomous_memory, phrase, detected))

NextAuto ==
    \/ TeachByCommand
    \/ AutoUpdateEmotionOfPhrase
    \/ AutoUpdateTone
    \/ AutoUpdateSubtone
    \/ AutoUpdateFlavor

SpecAuto == InitEmotion /\ [][NextAuto]_vars

\* the operations that update the memory on their own
AutoOps ==
    { "auto_update_emotion", "auto_update_tone", "auto_update_subtone",
      "auto_update_flavor" }

\* C19: with autonomous_memory disabled, auto_update_emotion,
\* auto_update_tone, auto_update_subtone and auto_update_flavor leave the
\* emotion memory and the tone, subtone and flavor tables unchanged, for
\* every phrase and every detected value.
C19_DisabledAutoUpdateChangesNothing ==
    [][ (last_call'.op \in AutoOps /\ ~autonomous_memory)
          => UNCHANGED << emotion_memory, emotion_file, tone_memory,
                          subtone_memory, flavor_memory >> ]_vars

\* with the flag off, an automatic update of a tone has run over a memory
\* that holds an entry and a tone, and both are as the commands left them
C19_Witness ==
    /\ ~autonomous_memory
    /\ last_call.op = "auto_update_tone"
    /\ Len(emotion_memory) = 1
    /\ tone_memory = << [label |-> "nejnyj", examples |-> << <<"n","e","t">> >>] >>

-----------------------------------------------------------------------------
(* The normalization of phrases *)

\* an upper-case letter, a letter, punctuation, a space, the underscore
PhraseChars == { "A", "a", "!", " ", "_" }

\* every phrase over these characters up to the length bound
PhraseInputs == UNION { [1..n -> PhraseChars] : n \in 0..MaxPhraseLen }

\* a phrase is at hand; everything else is as after construction
InitNormalize ==
    /\ full_conversation_history = <<>>
    /\ api_context_history = <<>>
    /\ summary_history = <<>>
    /\ latest_summary = NoneVal
    /\ message_embeddings = <<>>
    /\ appended = <<>>
    /\ clock = 0
    /\ embedding_model = FALSE
    /\ InitEmotionMemory
    /\ autonomous_memory = TRUE
    /\ InitRetrieval
    /\ InitTurn
    /\ InitTables
    /\ last_call \in { [op |-> "phrase", phrase |-> x] : x \in PhraseInputs }

\* memory._normalize_phrase(phrase)
NormalizePhrase ==
    /\ last_call.op = "phrase"
    /\ last_call' = [ op |-> "_normalize_phrase",
                      phrase |-> last_call.phrase,
                      result |-> _normalize_phrase(last_call.phrase) ]
    /\ UNCHANGED << convVars, emotionVars, retrievalVars, turnVars,
                    tableVars >>

NextNormalize == NormalizePhrase

SpecNormalize == InitNormalize /\ [][NextNormalize]_vars

\* C20: _normalize_phrase(_normalize_phrase(x)) = _normalize_phrase(x) for
\* every string x.
C20_NormalizeIsIdempotent ==
    last_call.op = "_normalize_phrase"
        => _normalize_phrase(last_call.result) = last_call.result

\* "A ! _" was normalized to "a _": lowered, the punctuation dropped, the
\* two spaces it leaves collapsed
C20_Witness ==
    /\ last_call.op = "_normalize_phrase"
    /\ last_call.phrase = <<"A", " ", "!", " ", "_">>
    /\ last_call.result = <<"a", " ", "_">>

-----------------------------------------------------------------------------
(* Loading the memory: astra_memory.py:86-135, 167-185, 662-688 *)

\* a file of the data directory: absent, not parseable as JSON, or JSON
FileMissing == [kind |-> "missing"]
FileCorrupt == [kind |-> "corrupt"]
FileJson(val) == [kind |-> "json", val |-> val]

\* a load that returns the default of a file it cannot parse and leaves
\* the file as it is
load_json_file_kept(file, default) ==
    IF file.kind = "json" THEN [value |-> file.val, file |-> file]
    ELSE [value |-> default, file |-> file]

\* AstraMemory.load_json_file: what it returns and the file it leaves
load_json_file(file, default) ==
    IF file.kind = "missing"
    THEN [value |-> default, file |-> FileJson(default)]
    ELSE IF file.kind = "json" THEN [value |-> file.val, file |-> file]
    ELSE [value |-> default, file |-> FileJson(default)]

\* AstraMemory.load_current_state; the default is written by
\* save_current_state
load_current_state(file) ==
    IF file.kind = "missing"
    THEN [value |-> DefaultState, file |-> FileJson(DefaultState)]
    ELSE IF file.kind = "json" THEN [value |-> file.val, file |-> file]
    ELSE [value |-> DefaultState, file |-> FileJson(DefaultState)]

\* the files load_all_memory reads into the tables of this model
TableFiles ==
    { "emotion_memory.json", "tone_memory.json", "subtone_memory.json",
      "flavor_memory.json", "trigger_phrase_memory.json",
      "current_state.json" }

\* the documented default of a file
DefaultOf(f) == IF f = "current_state.json" THEN DefaultState ELSE <<>>

\* a value a file can hold from an earlier session
StoredValue(f) ==
    CASE f = "emotion_memory.json" ->
           << [ trigger |-> <<"d","a">>, emotion |-> Some(<<"grust">>),
                tone |-> NoneVal, subtone |-> NoneVal, flavor |-> NoneVal ] >>
      [] f = "trigger_phrase_memory.json" ->
           << [ trigger |-> <<"m","o","e">>,
                sets |-> [ tone |-> Some("nejnyj"), emotion |-> NoneVal,
                           subtone |-> Some("drojashij"),
                           flavor |-> << "medovo-tekucij" >> ] ] >>
      [] f = "current_state.json" -> PlayfulState
      [] OTHER -> << [label |-> "nejnyj", examples |-> << <<"d","a">> >>] >>

\* every data directory: each file absent, unparseable or holding its value
FileKinds == { "missing", "corrupt", "json" }

Directory(kinds) ==
    [ f \in TableFiles |->
        IF kinds[f] = "json" THEN FileJson(StoredValue(f))
        ELSE [kind |-> kinds[f]] ]

\* load_all_memory over a directory: each file is loaded on its own
load_all_memory(dir) ==
    [ f \in TableFiles |->
        IF f = "current_state.json" THEN load_current_state(dir[f])
        ELSE load_json_file(dir[f], <<>>) ]

\* the table of the memory object that a file is loaded into
LoadedTable(f) ==
    CASE f = "emotion_memory.json" -> emotion_memory
      [] f = "tone_memory.json" -> tone_memory
      [] f = "subtone_memory.json" -> subtone_memory
      [] f = "flavor_memory.json" -> flavor_memory
      [] f = "trigger_phrase_memory.json" -> trigger_phrases
      [] f = "current_state.json" -> current_state

\* a data directory is found; the memory object is not loaded yet
InitLoad ==
    /\ full_conversation_history = <<>>
    /\ api_context_history = <<>>
    /\ summary_history = <<>>
    /\ latest_summary = NoneVal
    /\ message_embeddings = <<>>
    /\ appended = <<>>
    /\ clock = 0
    /\ embedding_model = FALSE
    /\ InitEmotionMemory
    /\ autonomous_memory = TRUE
    /\ InitRetrieval
    /\ InitTurn
    /\ InitTables
    /\ \E kinds \in [TableFiles -> FileKinds] :
         last_call = [op |-> "directory", found |-> Directory(kinds)]

\* the effect of load_all_memory: loaded[f] is what the load of f gave
LoadStep(found, loaded) ==
    /\ emotion_memory' = loaded["emotion_memory.json"].value
    /\ emotion_file' = loaded["emotion_memory.json"].value
    /\ tone_memory' = loaded["tone_memory.json"].value
    /\ subtone_memory' = loaded["subtone_memory.json"].value
    /\ flavor_memory' = loaded["flavor_memory.json"].value
    /\ trigger_phrases' = loaded["trigger_phrase_memory.json"].value
    /\ current_state' = loaded["current_state.json"].value
    /\ current_state_file' = loaded["current_state.json"].value
    /\ last_call' = [ op |-> "load_all_memory", found |-> found,
                      left |-> [f \in TableFiles |-> loaded[f].file] ]
    /\ UNCHANGED << autonomous_memory, emotion_calls, pc, turn, turns,
                    history_file, convVars, retrievalVars >>

\* memory.load_all_memory(), once per session (_memory_loaded)
LoadAllMemory ==
    /\ last_call.op = "directory"
    /\ LoadStep(last_call.found, load_all_memory(last_call.found))

NextLoad == LoadAllMemory

SpecLoad == InitLoad /\ [][NextLoad]_vars

\* C21: when a persisted JSON table fails to parse as it is loaded, the
\* load does not raise: that table is reset to its documented default,
\* which is returned and written back to its file, and every other table
\* keeps the value loaded from its own file.
C21_CorruptTableResetAlone ==
    last_call.op = "load_all_memory" =>
        \A f \in TableFiles :
            /\ last_call.found[f].kind = "corrupt" =>
                  /\ LoadedTable(f) = DefaultOf(f)
                  /\ last_call.left[f] = FileJson(DefaultOf(f))
            /\ last_call.found[f].kind = "json" =>
                  /\ LoadedTable(f) = last_call.found[f].val
                  /\ last_call.left[f] = last_call.found[f]

\* the tone table did not parse and was reset, while the trigger table and
\* the current state were loaded from their files
C21_Witness ==
    /\ last_call.op = "load_all_memory"
    /\ last_call.found["tone_memory.json"] = FileCorrupt
    /\ tone_memory = <<>>
    /\ last_call.left["tone_memory.json"] = FileJson(<<>>)
    /\ trigger_phrases = StoredValue("trigger_phrase_memory.json")
    /\ current_state = PlayfulState

-----------------------------------------------------------------------------
(* Further properties of the emotional state engine *)

\* the entries of memory that reach the threshold for message, best first
Analysis(memory, message) ==
    semantic_match(memory, message, DefaultMatchThreshold)

\* the emotion list of the best entry of a non-empty analysis
BestEmotion(memory, analysis) == DictGet(memory[analysis[1]].emotion, <<>>)

\* C22: when no trigger phrase matches and at least one entry of the emotion
\* memory has a similarity to the normalized message at or above the match
\* threshold, the resolved state carries the fields of the entry with the
\* highest similarity (stated for its emotion list, the field the entries
\* hold in a form decide_response_emotion reads).
C22_BestMatchDecidesState ==
    ( /\ last_call.op = "decide_response_emotion"
      /\ FirstTrigger(trigger_phrases, last_call.message) = 0
      /\ Analysis(emotion_memory, last_call.message) # <<>> )
        => last_call.result.emotion =
             BestEmotion(emotion_memory,
                         Analysis(emotion_memory, last_call.message))

\* the filler is in the result and in neither the prior nor the target list
FillerInserted(call) ==
    /\ InList(MildWarmth, call.result.emotion)
    /\ ~InList(MildWarmth, call.prior.emotion)
    /\ ~InList(MildWarmth, call.target.emotion)

\* C23: _smooth_transition_state inserts the filler emotion into the
\* resulting emotion list only when the prior and the target emotion sets
\* are both non-empty and disjoint; when the prior set is empty or the two
\* sets share an element, no filler is added.
C23_FillerOnlyBetweenDisjointSets ==
    ( /\ last_call.op = "_smooth_transition_state"
      /\ FillerInserted(last_call) )
        => /\ last_call.prior.emotion # <<>>
           /\ last_call.target.emotion # <<>>
           /\ ToSet(last_call.prior.emotion)
                \cap ToSet(last_call.target.emotion) = {}

\* C28: when no trigger phrase is contained in the message and no entry of
\* the emotion memory reaches the match threshold, decide_response_emotion
\* returns the current state, all four fields unchanged, and the call leaves
\* the stored current state as it was.
C28_NoMatchKeepsCurrentState ==
    [][ ( /\ last_call'.op = "decide_response_emotion"
          /\ FirstTrigger(trigger_phrases, last_call'.message) = 0
          /\ Analysis(emotion_memory, last_call'.message) = <<>> )
          => /\ last_call'.result = current_state
             /\ UNCHANGED << current_state, current_state_file >> ]_vars

\* "poka" matches neither the trigger nor the entry; the playful state that
\* was saved before is returned
C28_Witness ==
    /\ last_call.op = "decide_response_emotion"
    /\ last_call.message = <<"p","o","k","a">>
    /\ trigger_phrases # <<>>
    /\ emotion_memory # <<>>
    /\ current_state = PlayfulState
    /\ last_call.result = PlayfulState

-----------------------------------------------------------------------------
(* Further properties of memory retrieval *)

\* C24: during the greedy acceptance of scored fragments in priority order,
\* once one fragment is rejected because adding it would take the running
\* token estimate over the budget, no later fragment is accepted in that
\* retrieval call.
C24_NoAcceptanceAfterBudgetRejection ==
    last_call.op = "get_semantic_relevance" =>
        \A i, j \in 1..Len(last_call.decisions) :
            ( i < j /\ last_call.decisions[i] = "over_budget" )
                => last_call.decisions[j] # "accepted"

\* C25: when the vector store is unavailable or its search returns no hit
\* that passes the minimum score, the retrieval of the turn goes on to the
\* lexical tier (diary chunks, then relevance scoring) and does not end
\* with no memories without having tried it.
C25_NoVectorHitFallsBackToLexical ==
    ( /\ last_call.op = "extract_vector_memories"
      /\ last_call.passing = 0 )
        => last_call.tier # "vector_semantic"

-----------------------------------------------------------------------------
(* The size cut of the integrated prompt: dual_model_integrator.py:513-524 *)
(* A prompt is held by its length in characters and by whether it ends     *)
(* with the truncation marker.                                             *)

\* len(system_prompt) // 4 and the ceiling of line 517
CharsPerToken == 4
TokenCeiling == 25000
\* len("\n\n[Prompt sokrashen dlya soblyudeniya limitov API]") in the
\* source's spelling (lines 520-521)
MarkerChars == 46

\* the lengths of the assembled prompts looked at, around the ceiling
LeastPromptChars == 99950
MaxPromptChars == 100100

\* estimated_tokens of a text of so many characters
EstimatedTokens(chars) == chars \div CharsPerToken

\* lines 517-524: the prompt returned for an assembled text of chars
\* characters
CutPrompt(chars) ==
    IF EstimatedTokens(chars) > TokenCeiling
    THEN [ chars |-> TokenCeiling * CharsPerToken + MarkerChars,
           marked |-> TRUE ]
    ELSE [ chars |-> chars, marked |-> FALSE ]

\* a prompt has been assembled from the core prompt and the contexts
InitPrompt ==
    /\ full_conversation_history = <<>>
    /\ api_context_history = <<>>
    /\ summary_history = <<>>
    /\ latest_summary = NoneVal
    /\ message_embeddings = <<>>
    /\ appended = <<>>
    /\ clock = 0
    /\ embedding_model = FALSE
    /\ InitEmotionMemory
    /\ autonomous_memory = TRUE
    /\ InitRetrieval
    /\ InitTurn
    /\ InitTables
    /\ \E chars \in LeastPromptChars..MaxPromptChars :
         last_call = [op |-> "assembled", chars |-> chars]

\* integrator.create_integrated_prompt(...) from its size count on
CreateIntegratedPrompt ==
    /\ last_call.op = "assembled"
    /\ last_call' = [ op |-> "create_integrated_prompt",
                      assembled |-> last_call.chars,
                      result |-> CutPrompt(last_call.chars) ]
    /\ UNCHANGED << convVars, emotionVars, retrievalVars, turnVars,
                    tableVars >>

NextPrompt == CreateIntegratedPrompt

SpecPrompt == InitPrompt /\ [][NextPrompt]_vars

\* C26: the prompt create_integrated_prompt returns never exceeds the
\* global token ceiling (its length / 4 is at most 25000): an assembled
\* text over the ceiling is cut from the tail and ends with the truncation
\* marker, and the result with its marker is within the ceiling.
C26_PromptWithinCeiling ==
    last_call.op = "create_integrated_prompt" =>
        /\ EstimatedTokens(last_call.result.chars) <= TokenCeiling
        /\ EstimatedTokens(last_call.assembled) > TokenCeiling
             => last_call.result.marked

-----------------------------------------------------------------------------
(* The context selection over a history with old messages                  *)

\* messages added in this specification
MaxContextAppends == 13
\* the first messages of the dialogue are drawn from OldContents
OldSpan == 3

\* "gde kluci", "vajno: kod", "privet"
OldContents ==
    { <<"g","d","e"," ","k","l","u","c","i">>,
      <<"v","a","j","n","o",":"," ","k","o","d">>,
      <<"p","r","i","v","e","t">> }

\* "privet", "poka", "da": what the later messages repeat
LaterContents ==
    << <<"p","r","i","v","e","t">>, <<"p","o","k","a">>, <<"d","a">> >>

\* cm.add_message(role, content) as the turn calls it: user and assistant
\* alternate
AddContextMessage ==
    /\ Len(appended) < MaxContextAppends
    /\ \E content \in (IF Len(appended) < OldSpan THEN OldContents
                        ELSE { LaterContents[(Len(appended) % 3) + 1] }) :
         AddMessageStep(IF Len(appended) % 2 = 0 THEN "user" ELSE "assistant",
                        content, "emb")

\* cm.summarize_history(max_recent=2, summary_words=2) after the first
\* messages
SummarizeEarly ==
    /\ Len(appended) = OldSpan
    /\ summary_history = <<>>
    /\ SetCM(summarize_history(CM, 2, 2, clock))
    /\ last_call' = [op |-> "summarize_history", max_recent |-> 2,
                     triggered |-> ~SummarizeSkips(Len(CM.full), 2)]
    /\ UNCHANGED << appended, clock, emotionVars, retrievalVars, turnVars,
                    tableVars >>

\* the call with the semantic matches it was given
ContextCallStep(query, sem) ==
    /\ last_call' = [ op |-> "get_relevant_context", query |-> query,
                      semantic |-> semantic_search(CM, sem),
                      result |-> get_relevant_context(CM, query, sem) ]
    /\ UNCHANGED << convVars, emotionVars, retrievalVars, turnVars, tableVars >>

\* cm.get_relevant_context(query)
SelectRelevantContext ==
    /\ full_conversation_history # <<>>
    /\ \E query \in { <<"h","e","l","l","o">>,
                       <<"g","d","e"," ","k","l","u","c","i","?">> },
          sem \in SemanticOutcomeSample(CM) :
            ContextCallStep(query, sem)

NextContext == AddContextMessage \/ SummarizeEarly \/ SelectRelevantContext

SpecContext == InitConv /\ [][NextContext]_vars

\* the group a returned message stands in: 1 a recent message, 2 a
\* semantic match, 3 a message with a keyword of the query, 4 a message
\* with an important marker, 5 none of these
GroupOf(m, call) ==
    IF InList(m, RecentMessages(full_conversation_history)) THEN 1
    ELSE IF InList(m, call.semantic) THEN 2
    ELSE IF \E k \in ToSet(extract_keywords(call.query)) :
               StrContains(StrLower(m.content), k) THEN 3
    ELSE IF \E mk \in ImportantMarkers : StrContains(StrLower(m.content), mk)
    THEN 4 ELSE 5

\* the position of the first message of the recent window equal to m
FirstRecent(m) ==
    CHOOSE i \in 1..Len(RecentMessages(full_conversation_history)) :
        /\ RecentMessages(full_conversation_history)[i] = m
        /\ \A j \in 1..(i - 1) :
              RecentMessages(full_conversation_history)[j] # m

\* the returned list after the summary message that may lead it
SelectedMessages(result) ==
    IF result # <<>> /\ result[1].role = "system" THEN Tail(result) ELSE result

\* C27: the list get_relevant_context returns holds no two messages with
\* the same (role, content), and its messages stand in the fixed order:
\* the most recent messages in history order, then the semantic matches,
\* then the keyword matches, then the important-marker matches.
C27_ContextDistinctAndOrdered ==
    last_call.op = "get_relevant_context" =>
        /\ \A i, j \in 1..Len(last_call.result) :
              i # j => last_call.result[i] # last_call.result[j]
        /\ \A i, j \in 1..Len(SelectedMessages(last_call.result)) :
              i < j =>
                /\ GroupOf(SelectedMessages(last_call.result)[i], last_call)
                     <= GroupOf(SelectedMessages(last_call.result)[j], last_call)
                /\ GroupOf(SelectedMessages(last_call.result)[j], last_call) = 1
                     => FirstRecent(SelectedMessages(last_call.result)[i])
                          < FirstRecent(SelectedMessages(last_call.result)[j])
        /\ \A i \in 1..Len(SelectedMessages(last_call.result)) :
              GroupOf(SelectedMessages(last_call.result)[i], last_call) < 5

\* the summary leads a selection over twelve messages, ten of them recent
\* with repeated contents, followed by the old message with the keyword and
\* the old message with the marker
C27_Witness ==
    /\ last_call.op = "get_relevant_context"
    /\ last_call.semantic = <<>>
    /\ Len(full_conversation_history) = RecentWindow + 2
    /\ last_call.result[1].role = "system"
    /\ Len(last_call.result) = 9
    /\ last_call.result[8] =
          [role |-> "assistant", content |-> <<"g","d","e"," ","k","l","u","c","i">>]
    /\ last_call.result[9] =
          [role |-> "user", content |-> <<"v","a","j","n","o",":"," ","k","o","d">>]

-----------------------------------------------------------------------------
(* Further properties of a turn *)

\* the user messages among all the messages add_message was given
UserAppends == { i \in 1..Len(appended) : appended[i].role = "user" }

\* C29: each turn handled by the patched send_message appends the user's
\* message to the conversation history exactly once, also the turns in
\* which the dual-model path raises and the original send_message runs as
\* the fallback.
C29_UserMessageAppendedOnce ==
    pc = "idle" => Cardinality(UserAppends) = turns

-----------------------------------------------------------------------------
(* The vector store across processes: astra_mcp_memory.py:48-164           *)

\* the process starts with or without faiss and sentence-transformers
InitStore ==
    /\ InitConversation
    /\ embedding_model = FALSE
    /\ InitEmotionMemory
    /\ autonomous_memory = TRUE
    /\ mcp_texts = <<>>
    /\ mcp_index = <<>>
    /\ mcp_backend \in BOOLEAN
    /\ InitTurn
    /\ InitTables

\* AstraMCPMemory() in a new process: _load_index reads the index file as
\* the last store with a backend saved it, _load_metadata the metadata
\* file, which every store saves
ReloadStore ==
    /\ \E backend \in BOOLEAN : mcp_backend' = backend
    /\ last_call' = [op |-> "reload"]
    /\ UNCHANGED << mcp_texts, mcp_index, convVars, emotionVars, turnVars,
                    tableVars >>

\* AstraMCPMemory.semantic_search with every vector of the index among the
\* hits: for the index position idx the text returned is that of the
\* idx-th metadata key (line 161), found is the text the vector belongs to
SearchStore ==
    /\ mcp_backend
    /\ mcp_index # <<>>
    /\ last_call' = [ op |-> "semantic_search",
                      hits |-> [ idx \in 1..Len(mcp_index) |->
                                   [ returned |-> idx,
                                     found |-> mcp_index[idx] ] ] ]
    /\ UNCHANGED << retrievalVars, convVars, emotionVars, turnVars,
                    tableVars >>

NextStore == StoreMemory \/ ReloadStore \/ SearchStore

SpecStore == InitStore /\ [][NextStore]_vars

\* C30: after any sequence of store_memory calls, each made with the
\* embedding backend available or not, also across a reload of the
\* persisted metadata and index, the index holds as many vectors as there
\* are metadata entries, and the i-th index position maps to the metadata
\* of the text stored at that position.
C30_IndexAlignedWithMetadata ==
    /\ Len(mcp_index) = Len(mcp_texts)
    /\ \A i \in 1..Len(mcp_index) : mcp_index[i] = i
    /\ last_call.op = "semantic_search" =>
          \A i \in 1..Len(last_call.hits) :
              last_call.hits[i].returned = last_call.hits[i].found

====
